---- MODULE Spec2Model ----
(***************************************************************************)
(* Model of the Ollama protocol proxy (scripts/ts/ollama-proxy.ts).        *)
(*                                                                         *)
(* One POST /v1/chat/completions is followed from the end of its body to   *)
(* the answer written to the client.  callOllama(requestData, retryCount)  *)
(* is recursive: the call at retry count k owns a promise, one upstream    *)
(* http request and at most one backoff timer, so the state of a call is   *)
(* kept per retry count ("level").                                         *)
(*                                                                         *)
(* Strings are sequences of characters, JavaScript objects are functions   *)
(* whose DOMAIN is the set of fields that are present, and the fractional  *)
(* sampling parameters are kept in tenths (0.7 is 7, 0.9 is 9).            *)
(***************************************************************************)
EXTENDS Integers, Sequences, FiniteSets, TLC

\* ollama-proxy.ts:176  const maxRetries = 3
MaxRetries == 3
\* ollama-proxy.ts:177  const baseDelay = 1000
BaseDelay == 1000

\* Deepest retry count the model follows; callOllama itself has no such cap.
MaxLevel == 5

\* Bounds of the request values the conversions are applied to.
MaxMsgs == 2
MaxContentLen == 1

Levels == 0..MaxLevel

VARIABLES
    hs,            \* handleChatCompletion: "reading" | "awaiting" | "answered"
    clientOpen,    \* the client's connection is still open
    clientRes,     \* what was written to the client: a sequence of answers
    attempt,       \* attempt[k]: the upstream http request made by callOllama(_, k)
    outcome,       \* outcome[k]: what the upstream did to attempt k
    timer,         \* timer[k]: the setTimeout scheduled by callOllama(_, k)
    delay,         \* delay[k]: the delay that timer was given, in ms
    promise,       \* promise[k]: the promise returned by callOllama(_, k)
    openaiRequest, \* the parsed body of the client's request
    ollamaRequest  \* the request handed to callOllama

vars == <<hs, clientOpen, clientRes, attempt, outcome, timer, delay, promise,
          openaiRequest, ollamaRequest>>

proxyVars == <<hs, clientOpen, clientRes, attempt, outcome, timer, delay, promise>>

VARIABLES
    ollamaResponse, \* a completion payload of the daemon
    openaiResponse  \* what convertOllamaToOpenAI made of it

respVars == <<ollamaResponse, openaiResponse>>

\* the variables of the other parts of the program, which the proxy's
\* handlers of one chat-completion request leave alone
VARIABLES
    cur,     \* the request whose callbacks the event loop is running
    parked   \* the closure state of the other request in flight

multiVars == <<cur, parked>>

VARIABLES
    routeIn,   \* the arguments of one call of the routing decision engine
    decision   \* the RoutingDecision it returned

routeVars == <<routeIn, decision>>

VARIABLES
    sframes,   \* per streamed response: the frames the provider sends
    fed,       \* per streamed response: how many bytes were read so far
    sstate     \* per streamed response: the StreamState of its normalizer

streamVars == <<sframes, fed, sstate>>

VARIABLES
    plugins,   \* the transformers directory and the server handed to the loader
    registry,  \* the transformer service: name -> file whose transformer is in place
    errlog,    \* what the loader wrote with console.error
    server     \* "none" before createServer, then "returned" or "aborted"

loaderVars == <<plugins, registry, errlog, server>>

VARIABLES
    heap,     \* the objects of one transformRequest call, by address
    result    \* the address transformRequest returned, 0 before the call

xformVars == <<heap, result>>

VARIABLES
    logsDir,  \* the logs directory: whether it exists, can be listed, and its file names
    logRun    \* the cleanupLogFiles call: its maxFiles, and what it did once it returned

logVars == <<logsDir, logRun>>

VARIABLES
    backupDir,  \* the backup directory: whether it exists, and its entries (name -> isDir, mtime)
    backupRun   \* the cleanupOldBackups call: its maxBackups, and what it did once it returned

backupVars == <<backupDir, backupRun>>

VARIABLES
    pidFile,  \* whether the PID file exists
    pidRun    \* the cleanupPidFile call: where it stands, its retries, attempt and unlink count

pidVars == <<pidFile, pidRun>>

VARIABLES
    passReq,  \* the upstream request of proxyRequest: its state, url, upstream status, error code
    passRes   \* the client's response object: writeHead calls issued, header blocks sent, chunks piped, ended, exception thrown

passVars == <<passReq, passRes>>

VARIABLES
    configFile,     \* content of the configuration file, or absent
    configBackups,  \* contents copied aside by backupConfigFile, oldest first
    mgmtReq,        \* the management request in handling: endpoint, access level, body, position
    mgmtEffects,    \* config writes, restarts and updates carried out, in order
    mgmtReplies,    \* replies sent, in order
    restartTimers   \* access levels of the requests whose restart timer is armed

mgmtVars == <<configFile, configBackups, mgmtReq, mgmtEffects, mgmtReplies, restartTimers>>

VARIABLES
    hcConfig,   \* the config file the health check reads: whether it loads, its Providers
    hcResults,  \* HealthChecker.results: overall and the providers map
    hcRun       \* the CLI run: position, providers checked so far, exit code

healthVars == <<hcConfig, hcResults, hcRun>>

VARIABLES
    metrics,    \* MonitoringService.metrics: the requests and errors sections
    latencies   \* the latencies recorded since the last reset, in order

metricsVars == <<metrics, latencies>>

extVars == <<respVars, multiVars, routeVars, streamVars, loaderVars, xformVars, logVars, backupVars, pidVars, passVars, mgmtVars, healthVars, metricsVars>>







exceptLog == <<vars, respVars, multiVars, routeVars, streamVars, loaderVars, xformVars, backupVars, pidVars, passVars, mgmtVars, healthVars, metricsVars>>
exceptBackup == <<vars, respVars, multiVars, routeVars, streamVars, loaderVars, xformVars, logVars, pidVars, passVars, mgmtVars, healthVars, metricsVars>>
exceptPid == <<vars, respVars, multiVars, routeVars, streamVars, loaderVars, xformVars, logVars, backupVars, passVars, mgmtVars, healthVars, metricsVars>>
exceptPass == <<vars, respVars, multiVars, routeVars, streamVars, loaderVars, xformVars, logVars, backupVars, pidVars, mgmtVars, healthVars, metricsVars>>
exceptMgmt == <<vars, respVars, multiVars, routeVars, streamVars, loaderVars, xformVars, logVars, backupVars, pidVars, passVars, healthVars, metricsVars>>
exceptHealth == <<vars, respVars, multiVars, routeVars, streamVars, loaderVars, xformVars, logVars, backupVars, pidVars, passVars, mgmtVars, metricsVars>>
exceptMetrics == <<vars, respVars, multiVars, routeVars, streamVars, loaderVars, xformVars, logVars, backupVars, pidVars, passVars, mgmtVars, healthVars>>

allVars == <<vars, extVars>>

----------------------------------------------------------------------------
\* Values

\* error.code values the http client raises on the request's 'error' event
NetCodes == {"ECONNREFUSED", "ENOTFOUND", "ECONNRESET"}

\* statuses the daemon answers with, and what the body of a 200 holds
Statuses == {200, 400, 404, 500, 503}
Bodies == {"completion", "error", "notjson"}

RECURSIVE Pow2(_)
Pow2(n) == IF n = 0 THEN 1 ELSE 2 * Pow2(n - 1)


NoOutcome == [kind |-> "none", statusCode |-> 0, body |-> "", code |-> ""]

Unmade == [st |-> "unmade", statusCode |-> 0, code |-> "", from |-> 0]
Pending == [st |-> "pending", statusCode |-> 0, code |-> "", from |-> 0]
\* resolve(response) by the attempt at level k
Resolved(k) == [st |-> "resolved", statusCode |-> 200, code |-> "", from |-> k]
\* reject(error) by the attempt at level k; statusCode 0 and code "" stand for
\* an Error object without that property
Rejected(statusCode, code, k) ==
    [st |-> "rejected", statusCode |-> statusCode, code |-> code, from |-> k]

Settled(p) == p.st \in {"resolved", "rejected"}

\* resolve/reject of promise k with value v.  A settled promise ignores it.
\* The promise of level k > 0 was created by the timer callback of level k-1,
\* whose .then(resolve).catch(reject) hands the settlement on to level k-1.
RECURSIVE Settle(_, _, _)
Settle(P, k, v) ==
    IF P[k].st # "pending" THEN P
    ELSE LET Q == [P EXCEPT ![k] = v]
         IN  IF k = 0 THEN Q ELSE Settle(Q, k - 1, v)

----------------------------------------------------------------------------
\* callOllama

shouldRetry(error) ==
    \/ error.code \in {"ECONNREFUSED", "ENOTFOUND", "TIMEOUT"}
    \/ (error.statusCode # 0 /\ error.statusCode >= 500)

ErrorMayRetryInclusive(retryCount, error) ==
    retryCount <= MaxRetries /\ shouldRetry(error)

\* the guard of the 'error' handler
ErrorMayRetry(retryCount, error) ==
    retryCount < MaxRetries /\ shouldRetry(error)

TimeoutAlwaysRetries(retryCount) == TRUE

\* the guard of the 'timeout' handler
TimeoutMayRetry(retryCount) == retryCount < MaxRetries

BackoffFixed(retryCount) == BaseDelay

\* const delay = baseDelay * Math.pow(2, retryCount)
Backoff(retryCount) == BaseDelay * Pow2(retryCount)

EndResultIgnoresBodyError(statusCode, body, k) ==
    IF statusCode = 200
    THEN CASE body = "notjson" -> Rejected(0, "", k)
           [] OTHER            -> Resolved(k)
    ELSE Rejected(statusCode, "", k)

EndResultDropsStatus(statusCode, body, k) ==
    IF statusCode = 200
    THEN CASE body = "notjson" -> Rejected(0, "", k)
           [] body = "error"   -> Rejected(400, "", k)
           [] OTHER            -> Resolved(k)
    ELSE Rejected(0, "", k)

\* what res.on('end') settles the promise with
EndResult(statusCode, body, k) ==
    IF statusCode = 200
    THEN CASE body = "notjson" -> Rejected(0, "", k)   \* JSON.parse throws
           [] body = "error"   -> Rejected(400, "", k)
           [] OTHER            -> Resolved(k)
    ELSE Rejected(statusCode, "", k)

\* The continuation of the handler's await is a microtask: it runs before
\* the event loop takes the next I/O or timer callback.
MicrotasksDrained == ~(hs = "awaiting" /\ Settled(promise[0]))

\* new Promise(...) of callOllama(requestData, k): the request is written
StartAttempt(k) ==
    /\ promise' = [promise EXCEPT ![k] = Pending]
    /\ attempt' = [attempt EXCEPT ![k] = "inflight"]

\* res.on('end'): the daemon's response to attempt k has been read
ResponseEnd(k, statusCode, body) ==
    /\ UNCHANGED extVars
    /\ MicrotasksDrained
    /\ attempt[k] = "inflight"
    /\ attempt' = [attempt EXCEPT ![k] = "closed"]
    /\ outcome' = [outcome EXCEPT ![k] =
                     [kind |-> "response", statusCode |-> statusCode,
                      body |-> body, code |-> ""]]
    /\ promise' = Settle(promise, k, EndResult(statusCode, body, k))
    /\ UNCHANGED <<hs, clientOpen, clientRes, timer, delay,
                   openaiRequest, ollamaRequest>>

\* the body of req.on('error') for attempt k
OnError(k, code) ==
    LET error == [code |-> code, statusCode |-> 0]
    IN  IF ErrorMayRetry(k, error)
        THEN /\ timer' = [timer EXCEPT ![k] = "armed"]
             /\ delay' = [delay EXCEPT ![k] = Backoff(k)]
             /\ UNCHANGED promise
        ELSE /\ promise' = Settle(promise, k, Rejected(0, code, k))
             /\ UNCHANGED <<timer, delay>>

\* req.on('error'): the transport fails attempt k
RequestError(k, code) ==
    /\ UNCHANGED extVars
    /\ MicrotasksDrained
    /\ attempt[k] = "inflight"
    /\ attempt' = [attempt EXCEPT ![k] = "closed"]
    /\ outcome' = [outcome EXCEPT ![k] =
                     [kind |-> "error", statusCode |-> 0, body |-> "", code |-> code]]
    /\ OnError(k, code)
    /\ UNCHANGED <<hs, clientOpen, clientRes, openaiRequest, ollamaRequest>>

\* req.on('timeout'): req.destroy(), then retry or reject.  A request destroyed
\* before any response arrived goes on to raise 'error' (socket hang up,
\* ECONNRESET); one destroyed while its response was arriving does not.
RequestTimeout(k, raisesError) ==
    /\ UNCHANGED extVars
    /\ MicrotasksDrained
    /\ attempt[k] = "inflight"
    /\ attempt' = [attempt EXCEPT ![k] = IF raisesError THEN "destroyed" ELSE "closed"]
    /\ outcome' = [outcome EXCEPT ![k] =
                     [kind |-> "timeout", statusCode |-> 0, body |-> "",
                      code |-> IF raisesError THEN "ECONNRESET" ELSE ""]]
    /\ IF TimeoutMayRetry(k)
       THEN /\ timer' = [timer EXCEPT ![k] = "armed"]
            /\ delay' = [delay EXCEPT ![k] = Backoff(k)]
            /\ UNCHANGED promise
       ELSE /\ promise' = Settle(promise, k, Rejected(0, "TIMEOUT", k))
            /\ UNCHANGED <<timer, delay>>
    /\ UNCHANGED <<hs, clientOpen, clientRes, openaiRequest, ollamaRequest>>

\* req.on('error') of a request the timeout handler destroyed
DestroyedError(k) ==
    /\ UNCHANGED extVars
    /\ MicrotasksDrained
    /\ attempt[k] = "destroyed"
    /\ attempt' = [attempt EXCEPT ![k] = "closed"]
    /\ OnError(k, "ECONNRESET")
    /\ UNCHANGED <<hs, clientOpen, clientRes, outcome, openaiRequest, ollamaRequest>>

\* the setTimeout callback: this.callOllama(requestData, retryCount + 1)
TimerFire(k) ==
    /\ UNCHANGED extVars
    /\ MicrotasksDrained
    /\ timer[k] = "armed"
    /\ k + 1 <= MaxLevel
    /\ timer' = [timer EXCEPT ![k] = "fired"]
    /\ StartAttempt(k + 1)
    /\ UNCHANGED <<hs, clientOpen, clientRes, outcome, delay,
                   openaiRequest, ollamaRequest>>

----------------------------------------------------------------------------
\* convertOpenAIToOllama

\* num_predict: openaiRequest.max_tokens || 100
DefaultNumPredict == 100
\* temperature: openaiRequest.temperature || 0.7   (in tenths)
DefaultTemperature == 7
\* top_p: openaiRequest.top_p || 0.9               (in tenths)
DefaultTopP == 9

OllamaPrefix == <<"o", "l", "l", "a", "m", "a", ",">>

\* model.replace(/^ollama,/, '')
StripProvider(model) ==
    IF Len(model) >= Len(OllamaPrefix) /\ SubSeq(model, 1, Len(OllamaPrefix)) = OllamaPrefix
    THEN SubSeq(model, Len(OllamaPrefix) + 1, Len(model))
    ELSE model

\* `${msg.role}: ${msg.content}`
PromptLine(msg) == msg.role \o <<":", " ">> \o msg.content

RECURSIVE JoinLinesReversed(_)
JoinLinesReversed(lines) ==
    IF lines = <<>> THEN <<>>
    ELSE IF Len(lines) = 1 THEN lines[1]
    ELSE JoinLinesReversed(Tail(lines)) \o <<"\n">> \o lines[1]

\* lines.join('\n')
RECURSIVE JoinLines(_)
JoinLines(lines) ==
    IF lines = <<>> THEN <<>>
    ELSE IF Len(lines) = 1 THEN lines[1]
    ELSE lines[1] \o <<"\n">> \o JoinLines(Tail(lines))

\* obj[field] || dflt : an absent field is undefined, and undefined and 0 are falsy
OrDefault(obj, field, dflt) ==
    IF field \in DOMAIN obj /\ obj[field] # 0 THEN obj[field] ELSE dflt

\* openaiRequest.model.replace / openaiRequest.messages.map on undefined: TypeError
ConvertThrows(req) ==
    "model" \notin DOMAIN req \/ "messages" \notin DOMAIN req

convertOpenAIToOllama(req) ==
    [model   |-> StripProvider(req.model),
     prompt  |-> JoinLines([i \in 1..Len(req.messages) |->
                               PromptLine(req.messages[i])]),
     stream  |-> FALSE,
     options |-> [num_predict |-> OrDefault(req, "max_tokens", DefaultNumPredict),
                  temperature |-> OrDefault(req, "temperature", DefaultTemperature),
                  top_p       |-> OrDefault(req, "top_p", DefaultTopP)]]

NoRequest == [none |-> TRUE]

\* Request values the conversion is applied to
Roles == {<<"u", "s", "e", "r">>, <<"a", "s", "s", "i", "s", "t", "a", "n", "t">>}
ContentChars == {"x", "\n"}
Contents == UNION {[1..n -> ContentChars] : n \in 0..MaxContentLen}
Messages == [role : Roles, content : Contents]
MessageLists == UNION {[1..n -> Messages] : n \in 0..MaxMsgs}
Models == {<<"m">>, OllamaPrefix \o <<"m">>}
SamplingFields == {"max_tokens", "temperature", "top_p"}
SamplingValues == {0, 5}
Samplings == UNION {[S -> SamplingValues] : S \in SUBSET SamplingFields}
OpenAIRequests ==
    {[model |-> m, messages |-> ms] @@ sp :
        m \in Models, ms \in MessageLists, sp \in Samplings}

\* Bodies posted to the proxy in the runs of the whole handler
ProxyRequests ==
    {[model |-> OllamaPrefix \o <<"m">>,
      messages |-> <<[role |-> <<"u", "s", "e", "r">>, content |-> <<"x">>]>>,
      max_tokens |-> 5],
     [messages |-> <<[role |-> <<"u", "s", "e", "r">>, content |-> <<"x">>]>>]}

----------------------------------------------------------------------------
\* handleChatCompletion

\* the catch block: the OpenAI-compatible error answer for a rejection
ErrorAnswer(statusCode) ==
    [status |-> IF statusCode # 0 THEN statusCode ELSE 500,
     type   |-> IF statusCode = 400 THEN "invalid_request_error" ELSE "internal_error"]

SuccessAnswer == [status |-> 200, type |-> "chat.completion"]

\* req.on('end'): parse the body, convert it, call the daemon
RequestEnd(parsed) ==
    /\ UNCHANGED extVars
    /\ hs = "reading"
    /\ IF parsed /\ ~ConvertThrows(openaiRequest)
       THEN /\ ollamaRequest' = convertOpenAIToOllama(openaiRequest)
            /\ StartAttempt(0)
            /\ hs' = "awaiting"
            /\ UNCHANGED clientRes
       ELSE /\ clientRes' = Append(clientRes, ErrorAnswer(0))
            /\ hs' = "answered"
            /\ UNCHANGED <<ollamaRequest, promise, attempt>>
    /\ UNCHANGED <<clientOpen, outcome, timer, delay, openaiRequest>>

\* the answer written to the response object of the other request
RespondToOther ==
    /\ hs = "awaiting"
    /\ Settled(promise[0])
    /\ hs' = "answered"
    /\ parked' = [parked EXCEPT !.clientRes =
                     Append(@, IF promise[0].st = "resolved" THEN SuccessAnswer
                               ELSE ErrorAnswer(promise[0].statusCode))]
    /\ UNCHANGED <<clientOpen, clientRes, attempt, outcome, timer, delay, promise,
                   openaiRequest, ollamaRequest, respVars, cur, routeVars, streamVars,
                   loaderVars, xformVars, logVars, backupVars, pidVars, passVars, mgmtVars, healthVars, metricsVars>>

\* the continuation of `await this.callOllama(ollamaRequest)`
Respond ==
    /\ UNCHANGED extVars
    /\ hs = "awaiting"
    /\ Settled(promise[0])
    /\ hs' = "answered"
    /\ clientRes' = Append(clientRes,
                           IF promise[0].st = "resolved" THEN SuccessAnswer
                           ELSE ErrorAnswer(promise[0].statusCode))
    /\ UNCHANGED <<clientOpen, attempt, outcome, timer, delay, promise,
                   openaiRequest, ollamaRequest>>

\* the client gives up on the request while the proxy is calling the daemon;
\* the handler registers no listener for it
ClientDisconnect ==
    /\ UNCHANGED extVars
    /\ MicrotasksDrained
    /\ clientOpen
    /\ hs = "awaiting"
    /\ clientOpen' = FALSE
    /\ UNCHANGED <<hs, clientRes, attempt, outcome, timer, delay, promise,
                   openaiRequest, ollamaRequest>>

----------------------------------------------------------------------------
\* convertOllamaToOpenAI

\* obj[field] || dflt for a string field: undefined and '' are falsy
OrDefaultStr(obj, field, dflt) ==
    IF field \in DOMAIN obj /\ obj[field] # "" THEN obj[field] ELSE dflt

convertOllamaToOpenAI(response, originalRequest, now) ==
    [id      |-> <<"chatcmpl-", now>>,
     object  |-> "chat.completion",
     created |-> now \div 1000,
     model   |-> originalRequest.model,
     choices |-> <<[index |-> 0,
                    message |-> [role |-> "assistant",
                                 content |-> OrDefaultStr(response, "response", "")],
                    finish_reason |-> OrDefaultStr(response, "done_reason", "stop")]>>,
     usage   |-> [prompt_tokens |-> OrDefault(response, "prompt_eval_count", 0),
                  completion_tokens |-> OrDefault(response, "eval_count", 0),
                  total_tokens |-> OrDefault(response, "prompt_eval_count", 0)
                                   + OrDefault(response, "eval_count", 0)]]

NoResponse == [none |-> TRUE]

\* Completion payloads the conversion is applied to; done_reason takes the
\* values the daemon's API documents
DoneReasons == {"stop", "length", "load", "unload"}
OllamaResponses ==
    {t @@ d @@ c :
        t \in {[x \in {} |-> ""]} \cup {[response |-> v] : v \in {"", "x"}},
        d \in {[x \in {} |-> ""]} \cup {[done_reason |-> v] : v \in DoneReasons \cup {""}},
        c \in UNION {[S -> {0, 3}] : S \in SUBSET {"prompt_eval_count", "eval_count"}}}
Clock == {1000, 1999}

IdleResp ==
    /\ ollamaResponse = NoResponse
    /\ openaiResponse = NoResponse

IdleMulti ==
    /\ cur = 1
    /\ parked = NoRequest

----------------------------------------------------------------------------
\* Routing decision engine: decide(request, routerConfig, providers, tokenCount)

DefaultLongContextThreshold == 60000

\* provider name -> supported model names
Providers == [a |-> {"x", "y"}, b |-> {"x"}]

\* "provider,model" strings are sequences of characters; <<>> is an unset slot
HasComma(str) == \E i \in 1..Len(str) : str[i] = ","
FirstComma(str) == CHOOSE i \in 1..Len(str) :
                      str[i] = "," /\ \A j \in 1..(i - 1) : str[j] # ","
ParsePair(str) ==
    [provider |-> SubSeq(str, 1, FirstComma(str) - 1),
     model    |-> SubSeq(str, FirstComma(str) + 1, Len(str))]

\* the pair names a configured provider and a model in that provider's list
ValidPair(str) ==
    /\ HasComma(str)
    /\ LET pair == ParsePair(str)
       IN  /\ Len(pair.provider) = 1
           /\ Len(pair.model) = 1
           /\ pair.provider[1] \in DOMAIN Providers
           /\ pair.model[1] \in Providers[pair.provider[1]]

Configured(slot) == slot # <<>>

Threshold(routerConfig) ==
    IF "longContextThreshold" \in DOMAIN routerConfig
    THEN routerConfig.longContextThreshold
    ELSE DefaultLongContextThreshold

\* rule 4 with the comparison widened to "at least the threshold"
LongContextMatchesInclusive(routerConfig, tokenCount) ==
    tokenCount >= Threshold(routerConfig) /\ Configured(routerConfig.longContext)

\* rule 4: tokenCount > longContextThreshold and a longContext route configured
LongContextMatches(routerConfig, tokenCount) ==
    tokenCount > Threshold(routerConfig) /\ Configured(routerConfig.longContext)

\* rule 3: the custom router's answer, or "defer"; a thrown error and an
\* invalid return are treated as "defer"
CustomAnswer(routerConfig) ==
    IF routerConfig.customRouter.kind = "returns"
          /\ ValidPair(routerConfig.customRouter.value)
    THEN routerConfig.customRouter.value
    ELSE <<>>

\* the ladder with the custom router consulted before the subagent tag
SelectCustomFirst(request, routerConfig, tokenCount) ==
    IF HasComma(request.model) /\ ValidPair(request.model)
    THEN [rule |-> "explicit", target |-> request.model]
    ELSE IF CustomAnswer(routerConfig) # <<>>
    THEN [rule |-> "custom", target |-> CustomAnswer(routerConfig)]
    ELSE IF request.tag # <<>>
    THEN [rule |-> "subagent", target |-> request.tag]
    ELSE IF LongContextMatches(routerConfig, tokenCount)
    THEN [rule |-> "longContext", target |-> routerConfig.longContext]
    ELSE IF request.webSearch /\ Configured(routerConfig.webSearch)
    THEN [rule |-> "webSearch", target |-> routerConfig.webSearch]
    ELSE IF request.image = "allowed" /\ Configured(routerConfig.image)
    THEN [rule |-> "image", target |-> routerConfig.image]
    ELSE IF request.think
    THEN [rule |-> "think", target |-> routerConfig.think]
    ELSE IF request.background
    THEN [rule |-> "background", target |-> routerConfig.background]
    ELSE [rule |-> "default", target |-> routerConfig.default]

\* the priority ladder, first match wins
Select(request, routerConfig, tokenCount) ==
    IF HasComma(request.model) /\ ValidPair(request.model)
    THEN [rule |-> "explicit", target |-> request.model]
    ELSE IF request.tag # <<>>
    THEN [rule |-> "subagent", target |-> request.tag]
    ELSE IF CustomAnswer(routerConfig) # <<>>
    THEN [rule |-> "custom", target |-> CustomAnswer(routerConfig)]
    ELSE IF LongContextMatches(routerConfig, tokenCount)
    THEN [rule |-> "longContext", target |-> routerConfig.longContext]
    ELSE IF request.webSearch /\ Configured(routerConfig.webSearch)
    THEN [rule |-> "webSearch", target |-> routerConfig.webSearch]
    ELSE IF request.image = "allowed" /\ Configured(routerConfig.image)
    THEN [rule |-> "image", target |-> routerConfig.image]
    ELSE IF request.think
    THEN [rule |-> "think", target |-> routerConfig.think]
    ELSE IF request.background
    THEN [rule |-> "background", target |-> routerConfig.background]
    ELSE [rule |-> "default", target |-> routerConfig.default]

Decision(target, reason) ==
    [provider |-> ParsePair(target).provider,
     model    |-> ParsePair(target).model,
     reason   |-> reason]

\* the selected string delivered without the check against the providers
ValidateNothing(selected, routerConfig) ==
    IF HasComma(selected.target)
    THEN Decision(selected.target, selected.rule)
    ELSE [provider |-> <<>>, model |-> selected.target, reason |-> selected.rule]

\* validation: an unset or invalid selection falls back to default
Validate(selected, routerConfig) ==
    IF ValidPair(selected.target)
    THEN Decision(selected.target, selected.rule)
    ELSE Decision(routerConfig.default, "default")

decide(request, routerConfig, tokenCount) ==
    Validate(Select(request, routerConfig, tokenCount), routerConfig)

NoDecision == [none |-> TRUE]

Str(a, b) == <<a, ",", b>>

\* the routing inputs: model strings and slots that are valid ("a,x", "a,y",
\* "b,x"), name an unknown provider ("q,x") or an unknown model ("a,z")
RequestModels == {<<"x">>, Str("a", "y"), Str("q", "x")}
Tags == {<<>>, Str("b", "x"), Str("a", "z")}
CustomRouters ==
    {[kind |-> "unconfigured", value |-> <<>>],
     [kind |-> "defers", value |-> <<>>],
     [kind |-> "throws", value |-> <<>>],
     [kind |-> "returns", value |-> Str("a", "y")],
     [kind |-> "returns", value |-> Str("q", "x")]}
LongContextSlots == {<<>>, Str("b", "x"), Str("a", "z")}
OtherSlots == {<<>>, Str("a", "y")}
ThresholdConfigs == {[x \in {} |-> 0], [longContextThreshold |-> 2]}

RouteRequests ==
    [model : RequestModels, tag : Tags, webSearch : BOOLEAN,
     image : {"none", "blocked", "allowed"}, think : BOOLEAN, background : BOOLEAN]
RouterConfigs ==
    {slots @@ th :
       slots \in [default : {Str("a", "x")}, longContext : LongContextSlots,
                  webSearch : {<<>>, Str("a", "z")}, image : OtherSlots,
                  think : OtherSlots, background : {<<>>, Str("b", "x")},
                  customRouter : CustomRouters],
       th \in ThresholdConfigs}

IdleRoute ==
    /\ routeIn = NoRequest
    /\ decision = NoDecision

----------------------------------------------------------------------------
\* Stream normalizer: a byte stream of SSE frames in, canonical events out

MaxFrames == 2

\* One `field: value` line, and a frame: its lines followed by a blank line.
\* A frame is a sequence of [f, v] pairs of one-character names and values.
Line(pair) == <<pair.f, ":", " ", pair.v, "\n">>

RECURSIVE FrameLines(_)
FrameLines(frame) ==
    IF frame = <<>> THEN <<>> ELSE Line(Head(frame)) \o FrameLines(Tail(frame))

FrameBytes(frame) == FrameLines(frame) \o <<"\n">>

RECURSIVE StreamBytes(_)
StreamBytes(frames) ==
    IF frames = <<>> THEN <<>>
    ELSE FrameBytes(Head(frames)) \o StreamBytes(Tail(frames))

\* provider-native events: a text delta, a usage report (input or output
\* token count so far), the terminal event
DeltaFrame(c) == <<[f |-> "d", v |-> c]>>
UsageFrame(counter, n) == <<[f |-> "e", v |-> "u"], [f |-> counter, v |-> n]>>
StopFrame == <<[f |-> "e", v |-> "s"]>>
Digit == ("1" :> 1) @@ ("2" :> 2)

\* StreamState
StartState ==
    [phase |-> "AwaitingFrame", buffer |-> <<>>, events |-> <<>>,
     usage |-> [input |-> 0, output |-> 0]]

Closed(st) == st.phase \in {"Done", "Failed"}

\* index of the newline that ends the first complete frame of buf, 0 if none
Boundary(buf) ==
    LET ends == {i \in 1..(Len(buf) - 1) : buf[i] = "\n" /\ buf[i + 1] = "\n"}
    IN  IF ends = {} THEN 0 ELSE CHOOSE i \in ends : \A j \in ends : i <= j

\* the `field: value` lines of a frame's text, parsed
RECURSIVE ParseLines(_)
ParseLines(text) ==
    IF text = <<>> THEN <<>>
    ELSE LET nl    == CHOOSE i \in 1..Len(text) :
                         text[i] = "\n" /\ \A j \in 1..(i - 1) : text[j] # "\n"
             line  == SubSeq(text, 1, nl - 1)
             colon == CHOOSE i \in 1..Len(line) :
                         line[i] = ":" /\ \A j \in 1..(i - 1) : line[j] # ":"
             value == SubSeq(line, colon + 1, Len(line))
         IN  <<[f |-> SubSeq(line, 1, colon - 1),
                v |-> IF value # <<>> /\ Head(value) = " " THEN Tail(value) ELSE value]>>
             \o ParseLines(SubSeq(text, nl + 1, Len(text)))

HasField(native, f) == \E i \in 1..Len(native) : native[i].f = <<f>>
Field(native, f) == native[CHOOSE i \in 1..Len(native) : native[i].f = <<f>>].v[1]

Max(m, n) == IF m >= n THEN m ELSE n

\* the usage accumulator after a usage report; counters never decrease
Accumulate(usage, native) ==
    [input  |-> IF HasField(native, "i")
                THEN Max(usage.input, Digit[Field(native, "i")]) ELSE usage.input,
     output |-> IF HasField(native, "o")
                THEN Max(usage.output, Digit[Field(native, "o")]) ELSE usage.output]

\* a canonical event put in front of the ones already delivered
EmitFirst(events, event) == <<event>> \o events

\* a canonical event delivered after the ones already delivered
Emit(events, event) == Append(events, event)

\* one parsed provider-native event mapped to the canonical shape
OnFrame(st, native) ==
    IF HasField(native, "e") /\ Field(native, "e") = "u"
    THEN [st EXCEPT !.usage = Accumulate(st.usage, native)]
    ELSE IF HasField(native, "e") /\ Field(native, "e") = "s"
    THEN [st EXCEPT !.events = Emit(st.events, [name |-> "message-stop",
                                                 usage |-> st.usage]),
                    !.phase = "Done"]
    ELSE IF HasField(native, "d")
    THEN [st EXCEPT !.events = Emit(st.events, [name |-> "content-delta",
                                                 text |-> Field(native, "d")])]
    ELSE st

\* every complete frame of the buffer is parsed and mapped, in order; a
\* partial frame stays buffered
RECURSIVE Drain(_)
Drain(st) ==
    IF Closed(st) \/ Boundary(st.buffer) = 0
    THEN st
    ELSE LET b == Boundary(st.buffer)
         IN  Drain(OnFrame([st EXCEPT !.buffer = SubSeq(@, b + 2, Len(@))],
                           ParseLines(SubSeq(st.buffer, 1, b))))

Rest(st) ==
    IF Closed(st) THEN st
    ELSE [st EXCEPT !.phase = IF st.buffer = <<>> THEN "AwaitingFrame"
                              ELSE "AccumulatingFrame"]

\* a read callback that parses its chunk on its own, without the bytes left
\* over from earlier callbacks
FeedUnbuffered(st, chunk) ==
    IF Closed(st) THEN st
    ELSE Rest(Drain([st EXCEPT !.buffer = chunk]))

\* a read callback: the chunk is appended to the buffer, then drained
Feed(st, chunk) ==
    IF Closed(st) THEN st
    ELSE Rest(Drain([st EXCEPT !.buffer = @ \o chunk]))

\* transport error mid-stream: a terminal error event, nothing swallowed
Fail(st) ==
    [st EXCEPT !.events = Emit(@, [name |-> "error"]), !.phase = "Failed"]

\* the provider's streams: up to MaxFrames frames, the terminal one last
BodyFrames ==
    {DeltaFrame("a"), DeltaFrame("b"), UsageFrame("o", "1"), UsageFrame("o", "2"),
     UsageFrame("i", "1")}
FrameSeqs ==
    UNION {[1..n -> BodyFrames] : n \in 0..MaxFrames}
      \cup UNION {{body \o <<StopFrame>> : body \in [1..n -> BodyFrames]} :
                    n \in 0..(MaxFrames - 1)}
\* the stream of the response that runs beside the observed one
SideFrameSeqs == {<<DeltaFrame("b"), StopFrame>>}

Responses == {1, 2}

IdleStream ==
    /\ sframes = [r \in Responses |-> <<>>]
    /\ fed = [r \in Responses |-> 0]
    /\ sstate = [r \in Responses |-> StartState]

----------------------------------------------------------------------------
\* loadCustomTransformers / createServer

MaxFiles == 3

EmptyRegistry == [name \in {} |-> 0]

\* what registerTransformer of the transformer service (a library outside
\* this repository) does with a name it already holds
DupPolicies == {"overwrite", "throw"}

\* the body of the inner try for file i: the state after it, and whether it
\* threw
LoadFile(st, file, i, service, dup) ==
    IF file.exports = "throws"
    THEN [st |-> st, threw |-> TRUE]
    ELSE IF file.exports = "noname"
    THEN [st |-> [st EXCEPT !.errlog = Append(@, [msg |-> "invalid format", file |-> i])],
          threw |-> FALSE]
    ELSE IF ~service
    THEN [st |-> [st EXCEPT !.errlog = Append(@, [msg |-> "no service", file |-> i])],
          threw |-> FALSE]
    ELSE IF file.exports \in DOMAIN st.registry /\ dup = "throw"
    THEN [st |-> st, threw |-> TRUE]
    ELSE [st |-> [st EXCEPT !.registry = (file.exports :> i) @@ @], threw |-> FALSE]

\* the loop with the inner try/catch removed: the first exception leaves the
\* loop for the outer catch
RECURSIVE LoadFilesOuterCatchOnly(_, _, _, _, _)
LoadFilesOuterCatchOnly(st, files, i, service, dup) ==
    IF i > Len(files) THEN st
    ELSE IF ~files[i].js THEN LoadFilesOuterCatchOnly(st, files, i + 1, service, dup)
    ELSE LET r == LoadFile(st, files[i], i, service, dup)
         IN  IF r.threw
             THEN [r.st EXCEPT !.errlog = Append(@, [msg |-> "failed to load all", file |-> 0])]
             ELSE LoadFilesOuterCatchOnly(r.st, files, i + 1, service, dup)

\* for (const file of files): files not ending in .js are passed over, an
\* exception while loading one file is logged and the loop goes on
RECURSIVE LoadFiles(_, _, _, _, _)
LoadFiles(st, files, i, service, dup) ==
    IF i > Len(files) THEN st
    ELSE IF ~files[i].js THEN LoadFiles(st, files, i + 1, service, dup)
    ELSE LET r == LoadFile(st, files[i], i, service, dup)
         IN  LoadFiles(IF r.threw
                       THEN [r.st EXCEPT !.errlog =
                               Append(@, [msg |-> "failed to load", file |-> i])]
                       ELSE r.st,
                       files, i + 1, service, dup)

loadCustomTransformers(st, dir, dup) ==
    IF dir.state = "absent" THEN st
    ELSE IF dir.state = "unreadable"
    THEN [st EXCEPT !.errlog = Append(@, [msg |-> "failed to load all", file |-> 0])]
    ELSE LoadFiles(st, dir.files, 1, dir.service, dup)

\* directory listings of up to MaxFiles files
PluginFiles ==
    [js : {FALSE}, exports : {"noname"}]
      \cup [js : {TRUE}, exports : {"throws", "noname", "t", "u"}]
PluginDirs ==
    [state : {"absent", "unreadable"}, service : {TRUE}, files : {<<>>}]
      \cup [state : {"ok"}, service : BOOLEAN,
             files : UNION {[1..n -> PluginFiles] : n \in 0..MaxFiles}]

NoPlugins == [state |-> "absent", service |-> TRUE, files |-> <<>>]

IdleLoader ==
    /\ plugins = NoPlugins
    /\ registry = EmptyRegistry
    /\ errlog = <<>>
    /\ server = "none"

----------------------------------------------------------------------------
\* The ollama transformer's transformRequest

\* Objects live in a heap, address -> object; a field that holds an object
\* holds its address.
Ref(addr) == [ref |-> addr]
ReqAddr == 1
BodyAddr == 2
MessagesAddr == 3
\* the next free address
Fresh(h) == Cardinality(DOMAIN h) + 1

\* if (openaiRequest.field) for a numeric field
TruthyNumber(obj, field) == field \in DOMAIN obj /\ obj[field] # 0

\* the optional parameters copied when present (and truthy)
Optional(obj, field) ==
    IF TruthyNumber(obj, field) THEN (field :> obj[field]) ELSE [x \in {} |-> 0]

\* the new body, built from the fields of the body received
OllamaBody(openai) ==
    [model    |-> IF "model" \in DOMAIN openai THEN openai.model ELSE "undefined",
     messages |-> openai.messages,
     stream   |-> ~("stream" \in DOMAIN openai /\ openai.stream = FALSE)]
      @@ Optional(openai, "max_tokens")
      @@ Optional(openai, "temperature")
      @@ Optional(openai, "top_p")
      @@ (IF "tools" \in DOMAIN openai THEN [tools |-> openai.tools] ELSE [x \in {} |-> 0])

\* the conversion written into the object received: req.body is replaced and
\* req itself returned
transformRequestInPlace(h, req) ==
    LET body == Fresh(h)
    IN  [heap |-> [h EXCEPT ![req] = [body |-> Ref(body)] @@ h[req]]
                    @@ (body :> OllamaBody(h[h[req].body.ref])),
         ret  |-> req]

\* transformRequest: { ...req, body: ollamaRequest } with a new ollamaRequest
transformRequest(h, req) ==
    LET body == Fresh(h)
        ret  == Fresh(h) + 1
    IN  [heap |-> h @@ (body :> OllamaBody(h[h[req].body.ref]))
                    @@ (ret :> ([body |-> Ref(body)] @@ h[req])),
         ret  |-> ret]

\* request bodies handed to the transformer
TransformBodies ==
    {[messages |-> Ref(MessagesAddr)] @@ m @@ st @@ n @@ t :
        m  \in {[x \in {} |-> 0]} \cup {[model |-> "llama"]},
        st \in {[x \in {} |-> 0]} \cup {[stream |-> b] : b \in BOOLEAN},
        n  \in UNION {[S -> {0, 5}] : S \in SUBSET {"max_tokens", "temperature", "top_p"}},
        t  \in {[x \in {} |-> 0]} \cup {[tools |-> "tools"]}}

StartHeap(body) ==
    (ReqAddr :> [method |-> "POST", url |-> "/v1/chat/completions", body |-> Ref(BodyAddr)])
      @@ (BodyAddr :> body)
      @@ (MessagesAddr :> <<[role |-> "user", content |-> "hi"]>>)

IdleXform ==
    /\ heap = [addr \in {} |-> 0]
    /\ result = 0

----------------------------------------------------------------------------
\* CleanupManager.cleanupLogFiles

MaxKeep == 3

\* File names are sequences of pieces; the pieces "ccr-" and ".log" are the
\* prefix and the suffix the filter looks for.  PieceRank orders the pieces
\* as their first characters are ordered ('.' < '1' < '2' < 'c' < 'x').
PieceRank == (".log" :> 1) @@ ("1" :> 2) @@ ("2" :> 3) @@ ("ccr-" :> 4) @@ ("x" :> 5)

\* a < b in the order of Array.prototype.sort() on strings
RECURSIVE NameLess(_, _)
NameLess(a, b) ==
    IF b = <<>> THEN FALSE
    ELSE IF a = <<>> THEN TRUE
    ELSE IF Head(a) # Head(b) THEN PieceRank[Head(a)] < PieceRank[Head(b)]
    ELSE NameLess(Tail(a), Tail(b))

\* file.startsWith('ccr-') && file.endsWith('.log')
IsLogFile(file) ==
    /\ file # <<>>
    /\ Head(file) = "ccr-"
    /\ file[Len(file)] = ".log"

\* .sort(): the names in ascending order
RECURSIVE SortNames(_)
SortNames(names) ==
    IF names = {} THEN <<>>
    ELSE LET least == CHOOSE n \in names : \A o \in names : o = n \/ NameLess(n, o)
         IN  <<least>> \o SortNames(names \ {least})

ReverseSeq(seq) == [i \in 1..Len(seq) |-> seq[Len(seq) + 1 - i]]

\* the log files sorted but not reversed: oldest first
LogFilesOldestFirst(files) == SortNames({file \in files : IsLogFile(file)})

\* files.filter(...).sort().reverse(): newest first
LogFiles(files) == ReverseSeq(SortNames({file \in files : IsLogFile(file)}))

\* the names at index maxFiles and beyond (counted from 0)
Exceeding(files, maxFiles) ==
    LET logFiles == LogFiles(files)
    IN  IF Len(logFiles) > maxFiles
        THEN {logFiles[i] : i \in (maxFiles + 1)..Len(logFiles)}
        ELSE {}

\* the directory after cleanupLogFiles(maxFiles); failing are the names whose
\* unlink throws
cleanupLogFiles(dir, maxFiles, failing) ==
    IF ~dir.exists \/ ~dir.listable THEN dir
    ELSE [dir EXCEPT !.files = @ \ (Exceeding(@, maxFiles) \ failing)]

\* names that may be in the logs directory
LogDirNames ==
    {<<"ccr-", ".log">>, <<"ccr-", "1", ".log">>, <<"ccr-", "1", "2", ".log">>,
     <<"ccr-", "2", ".log">>, <<"ccr-", "2">>, <<"x", ".log">>}

LogDirs ==
    {[exists |-> FALSE, listable |-> FALSE, files |-> {}]}
      \cup [exists : {TRUE}, listable : BOOLEAN, files : SUBSET LogDirNames]

NoRun == [done |-> FALSE]

IdleLog ==
    /\ logsDir = [exists |-> FALSE, listable |-> FALSE, files |-> {}]
    /\ logRun = NoRun

----------------------------------------------------------------------------
\* CleanupManager.cleanupOldBackups

\* a sequence holding every element of the set once: an order in which
\* readdir may list the entries
Listings(names) ==
    {seq \in [1..Cardinality(names) -> names] :
        \A i, j \in 1..Cardinality(names) : i # j => seq[i] # seq[j]}

\* the listed entries that are directories, in listing order
RECURSIVE BackupDirsOf(_, _)
BackupDirsOf(entries, listing) ==
    IF listing = <<>> THEN <<>>
    ELSE (IF entries[Head(listing)].isDir THEN <<Head(listing)>> ELSE <<>>)
         \o BackupDirsOf(entries, Tail(listing))

\* name put into a sequence sorted by mtime, newest first, after the entries
\* that are as new as it (the sort is stable)
RECURSIVE InsertByMtime(_, _, _)
InsertByMtime(entries, sorted, name) ==
    IF sorted = <<>> THEN <<name>>
    ELSE IF entries[Head(sorted)].mtime >= entries[name].mtime
    THEN <<Head(sorted)>> \o InsertByMtime(entries, Tail(sorted), name)
    ELSE <<name>> \o sorted

\* backupDirs.sort((a, b) => b.mtime.getTime() - a.mtime.getTime())
RECURSIVE SortByMtime(_, _)
SortByMtime(entries, dirs) ==
    IF dirs = <<>> THEN <<>>
    ELSE InsertByMtime(entries, SortByMtime(entries, SubSeq(dirs, 1, Len(dirs) - 1)),
                       dirs[Len(dirs)])

\* backupDirs.slice(0, maxBackups): the directories that are kept
SliceKept(sorted, maxBackups) ==
    SubSeq(sorted, 1, IF maxBackups < Len(sorted) THEN maxBackups ELSE Len(sorted))

\* backupDirs.slice(maxBackups)
Slice(sorted, maxBackups) == SubSeq(sorted, maxBackups + 1, Len(sorted))

\* for (const backup of toDelete) await fs.rm(...): the names removed before
\* the first removal that throws
RECURSIVE RemovedUntilFailure(_, _)
RemovedUntilFailure(toDelete, rmFails) ==
    IF toDelete = <<>> \/ Head(toDelete) \in rmFails THEN {}
    ELSE {Head(toDelete)} \cup RemovedUntilFailure(Tail(toDelete), rmFails)

Without(entries, names) == [name \in DOMAIN entries \ names |-> entries[name]]

\* the directory after cleanupOldBackups(dir, maxBackups); whatever throws is
\* caught at the end of the function
cleanupOldBackups(dir, maxBackups, listing, statThrows, rmFails) ==
    IF ~dir.exists \/ ~dir.listable \/ statThrows THEN dir
    ELSE [dir EXCEPT !.entries =
            Without(@, RemovedUntilFailure(
                          Slice(SortByMtime(dir.entries, BackupDirsOf(dir.entries, listing)),
                                maxBackups),
                          rmFails))]

\* entries that may be in the backup directory
BackupNames == {"b1", "b2", "b3"}
BackupStats == [isDir : BOOLEAN, mtime : {1, 2}]
BackupDirStates ==
    {[exists |-> FALSE, listable |-> FALSE, entries |-> <<>>]}
      \cup [exists : {TRUE}, listable : BOOLEAN,
            entries : UNION {[S -> BackupStats] : S \in SUBSET BackupNames}]

IdleBackup ==
    /\ backupDir = [exists |-> FALSE, listable |-> FALSE, entries |-> <<>>]
    /\ backupRun = NoRun

----------------------------------------------------------------------------
\* CleanupManager.cleanupPidFile

MaxPidRetries == 6

\* the loop running one turn more than retries
LoopContinuesOnceMore(turn, retries) == turn <= retries + 1

\* for (let attempt = 1; attempt <= retries; attempt++)
LoopContinues(turn, retries) == turn <= retries

NoPidRun ==
    [pc |-> "idle", retries |-> 0, attempt |-> 0, unlinks |-> 0, warnings |-> 0,
     outcome |-> "none"]

\* the loop head reached with the given attempt number
LoopHead(run, turn) ==
    IF LoopContinues(turn, run.retries)
    THEN [run EXCEPT !.pc = "trying", !.attempt = turn]
    ELSE [run EXCEPT !.pc = "returned", !.attempt = turn,
                     !.outcome = IF run.unlinks = 0 THEN "no attempt" ELSE "gave up"]

IdlePid ==
    /\ pidFile = FALSE
    /\ pidRun = NoPidRun

----------------------------------------------------------------------------
\* proxyRequest

MaxChunks == 2

\* paths other than POST /v1/chat/completions, which handleRequest passes on
PassUrls == {"/api/tags", "/api/version"}

\* error.code values a request raises before or after its response began
PassNetCodes == {"ECONNREFUSED", "ECONNRESET"}

\* req.method of a passed-through request
PassMethods == {"GET", "POST"}

NoPassReq == [st |-> "none", method |-> "", url |-> "", statusCode |-> 0, code |-> ""]

FreshRes == [writeHeads |-> <<>>, headers |-> <<>>, chunks |-> 0,
             ended |-> FALSE, thrown |-> FALSE]

\* res.writeHead(statusCode): the call is issued; a response whose header block
\* was already sent throws ERR_HTTP_HEADERS_SENT instead of sending another
writeHead(res, statusCode) ==
    IF res.headers # <<>>
    THEN [res EXCEPT !.writeHeads = Append(@, statusCode), !.thrown = TRUE]
    ELSE [res EXCEPT !.writeHeads = Append(@, statusCode),
                     !.headers = Append(@, statusCode)]

\* res.end(...): skipped when the statement before it threw
end(res) == IF res.thrown THEN res ELSE [res EXCEPT !.ended = TRUE]

IdlePass ==
    /\ passReq = NoPassReq
    /\ passRes = FreshRes

\* handleRequest's else branch: proxyRequest(req, res) sends the request on
ProxyRequest(method, url) ==
    /\ passReq.st = "none"
    /\ passReq' = [passReq EXCEPT !.st = "sent", !.method = method, !.url = url]
    /\ UNCHANGED passRes
    /\ UNCHANGED exceptPass

\* the response callback: res.writeHead(proxyRes.statusCode, proxyRes.headers)
\* and proxyRes.pipe(res)
ProxyResponse(statusCode) ==
    /\ passReq.st = "sent"
    /\ passReq' = [passReq EXCEPT !.st = "responded", !.statusCode = statusCode]
    /\ passRes' = writeHead(passRes, statusCode)
    /\ UNCHANGED exceptPass

\* proxyRes.pipe(res): one chunk of the upstream body is written to the client
PipeChunk ==
    /\ passReq.st = "responded"
    /\ passRes.chunks < MaxChunks
    /\ passRes' = [passRes EXCEPT !.chunks = @ + 1]
    /\ UNCHANGED passReq
    /\ UNCHANGED exceptPass

\* proxyRes.pipe(res): the upstream body ends and pipe ends the response
PipeEnd ==
    /\ passReq.st = "responded"
    /\ passReq' = [passReq EXCEPT !.st = "complete"]
    /\ passRes' = end(passRes)
    /\ UNCHANGED exceptPass

\* proxyReq.on('error'): res.writeHead(500); res.end('Proxy error').  The
\* request raises 'error' when the connection fails, before a response or
\* while the response's body is still arriving.
ProxyError(code) ==
    /\ passReq.st \in {"sent", "responded"}
    /\ passReq.st = "responded" => code = "ECONNRESET"
    /\ passReq' = [passReq EXCEPT !.st = "failed", !.code = code]
    /\ passRes' = end(writeHead(passRes, 500))
    /\ UNCHANGED exceptPass

----------------------------------------------------------------------------
\* createServer: POST /api/config, POST /api/restart, POST /api/update/perform

MaxMgmtRequests == 2

\* (req as any).accessLevel as the request reaches the handler
AccessLevels == {"full", "restricted", "missing"}

\* const accessLevel = (req as any).accessLevel || "restricted"
EffectiveLevel(accessLevel) ==
    IF accessLevel = "missing" THEN "restricted" ELSE accessLevel

\* a guard on the access level in front of the handler's work
RequiresFull(accessLevel) == EffectiveLevel(accessLevel) = "full"

ConfigBodies == {"c1", "c2"}
ConfigFiles == {"absent", "c0"} \cup ConfigBodies

\* how `await backupConfigFile()` ends: the path of the copy, a falsy value
\* when there was nothing to copy, or a rejection
BackupOutcomes(file) ==
    IF file = "absent" THEN {"nothing to copy", "throws"} ELSE {"copied", "throws"}

NoMgmtReq ==
    [pc |-> "idle", endpoint |-> "", accessLevel |-> "", body |-> "",
     backup |-> "", before |-> ""]

\* the config handler going on to writeConfigFile whatever the backup did
AfterBackupAlwaysWrites(backupPath) == "write"

\* a rejected await leaves the handler; otherwise the next statement runs
AfterBackup(backupPath) == IF backupPath = "throws" THEN "idle" ELSE "write"

Effect(kind, req) ==
    [kind |-> kind, accessLevel |-> req.accessLevel, backup |-> req.backup,
     before |-> req.before]

Reply(req, status) == [endpoint |-> req.endpoint, status |-> status]

IdleMgmt ==
    /\ configFile = "absent"
    /\ configBackups = <<>>
    /\ mgmtReq = NoMgmtReq
    /\ mgmtEffects = <<>>
    /\ mgmtReplies = <<>>
    /\ restartTimers = <<>>

\* POST /api/config up to `await backupConfigFile()`
PostConfig(accessLevel, newConfig) ==
    /\ mgmtReq.pc = "idle"
    /\ Len(mgmtReplies) < MaxMgmtRequests
    /\ mgmtReq' = [pc |-> "backup", endpoint |-> "config", accessLevel |-> accessLevel,
                   body |-> newConfig, backup |-> "", before |-> configFile]
    /\ UNCHANGED <<configFile, configBackups, mgmtEffects, mgmtReplies, restartTimers>>
    /\ UNCHANGED exceptMgmt

\* backupConfigFile() settles; a rejection is answered 500 by the framework
BackupSettles(backupPath) ==
    /\ mgmtReq.pc = "backup"
    /\ backupPath \in BackupOutcomes(configFile)
    /\ configBackups' = IF backupPath = "copied" THEN Append(configBackups, configFile)
                        ELSE configBackups
    /\ mgmtReq' = [mgmtReq EXCEPT !.backup = backupPath, !.pc = AfterBackup(backupPath)]
    /\ mgmtReplies' = IF AfterBackup(backupPath) = "idle"
                      THEN Append(mgmtReplies, Reply(mgmtReq, 500)) ELSE mgmtReplies
    /\ UNCHANGED <<configFile, mgmtEffects, restartTimers>>
    /\ UNCHANGED exceptMgmt

\* `await writeConfigFile(newConfig)` and the return of the success object
WriteSettles(writeThrows) ==
    /\ mgmtReq.pc = "write"
    /\ IF writeThrows
       THEN /\ mgmtReplies' = Append(mgmtReplies, Reply(mgmtReq, 500))
            /\ UNCHANGED <<configFile, mgmtEffects>>
       ELSE /\ configFile' = mgmtReq.body
            /\ mgmtEffects' = Append(mgmtEffects, Effect("config write", mgmtReq))
            /\ mgmtReplies' = Append(mgmtReplies, Reply(mgmtReq, 200))
    /\ mgmtReq' = [mgmtReq EXCEPT !.pc = "idle"]
    /\ UNCHANGED <<configBackups, restartTimers>>
    /\ UNCHANGED exceptMgmt

\* POST /api/restart: reply.send(...) and setTimeout(..., 1000)
PostRestart(accessLevel) ==
    /\ mgmtReq.pc = "idle"
    /\ Len(mgmtReplies) < MaxMgmtRequests
    /\ mgmtReq' = [NoMgmtReq EXCEPT !.endpoint = "restart", !.accessLevel = accessLevel]
    /\ mgmtReplies' = Append(mgmtReplies, [endpoint |-> "restart", status |-> 200])
    /\ restartTimers' = Append(restartTimers, accessLevel)
    /\ UNCHANGED <<configFile, configBackups, mgmtEffects>>
    /\ UNCHANGED exceptMgmt

\* the timer callback: spawn(process.execPath, [process.argv[1], "restart"])
RestartTimerFires ==
    /\ restartTimers # <<>>
    /\ mgmtEffects' = Append(mgmtEffects,
                             [kind |-> "restart", accessLevel |-> Head(restartTimers),
                              backup |-> "", before |-> ""])
    /\ restartTimers' = Tail(restartTimers)
    /\ UNCHANGED <<configFile, configBackups, mgmtReq, mgmtReplies>>
    /\ UNCHANGED exceptMgmt

\* POST /api/update/perform: the access check, then `await performUpdate()`
PostUpdatePerform(accessLevel, updateThrows) ==
    /\ mgmtReq.pc = "idle"
    /\ Len(mgmtReplies) < MaxMgmtRequests
    /\ mgmtReq' = [NoMgmtReq EXCEPT !.endpoint = "update", !.accessLevel = accessLevel]
    /\ IF ~RequiresFull(accessLevel)
       THEN /\ mgmtReplies' = Append(mgmtReplies, [endpoint |-> "update", status |-> 403])
            /\ UNCHANGED mgmtEffects
       ELSE IF updateThrows
       THEN /\ mgmtReplies' = Append(mgmtReplies, [endpoint |-> "update", status |-> 500])
            /\ UNCHANGED mgmtEffects
       ELSE /\ mgmtReplies' = Append(mgmtReplies, [endpoint |-> "update", status |-> 200])
            /\ mgmtEffects' = Append(mgmtEffects,
                                     [kind |-> "update", accessLevel |-> accessLevel,
                                      backup |-> "", before |-> ""])
    /\ UNCHANGED <<configFile, configBackups, restartTimers>>
    /\ UNCHANGED exceptMgmt

----------------------------------------------------------------------------
\* health-check: determineOverallStatus and main

MaxProviders == 2

ProviderNames == {"p1", "p2"}

\* result.status as checkProvider leaves it
ProviderStatuses == {"healthy", "partial", "degraded", "unreachable", "error"}

EmptyMap == [n \in {} |-> "unknown"]

\* results as the constructor leaves them
NoHealthResults == [overall |-> "unknown", providers |-> EmptyMap]

NoHealthRun == [pc |-> "start", checked |-> 0, exitCode |-> -1]

\* providerStatuses.filter(p => statuses.includes(p.status)).length
CountIn(providers, statuses) ==
    Cardinality({n \in DOMAIN providers : providers[n] \in statuses})

determineOverallStatus(providers) ==
    LET length == Cardinality(DOMAIN providers)
        healthyCount == CountIn(providers, {"healthy"})
        reachableCount == CountIn(providers, {"healthy", "partial", "degraded"})
    IN  IF length = 0 THEN "no_providers"
        ELSE IF healthyCount = length THEN "healthy"
        ELSE IF 2 * reachableCount >= length THEN "partial"
        ELSE IF reachableCount > 0 THEN "degraded"
        ELSE "unreachable"

\* const exitCodes: Record<string, number>
exitCodes ==
    [overall \in {"healthy", "partial", "degraded", "unreachable", "no_providers"} |->
        CASE overall = "healthy"      -> 0
          [] overall = "partial"      -> 1
          [] overall = "degraded"     -> 2
          [] overall = "unreachable"  -> 3
          [] overall = "no_providers" -> 4]

\* exitCodes[overall] || 1: undefined and 0 are falsy
ExitCode(overall) ==
    IF overall \in DOMAIN exitCodes /\ exitCodes[overall] # 0
    THEN exitCodes[overall] ELSE 1

IdleHealth ==
    /\ hcConfig = [loads |-> FALSE, hasProviders |-> FALSE, Providers |-> <<>>]
    /\ hcResults = NoHealthResults
    /\ hcRun = NoHealthRun

\* main up to checkAllProviders: loadConfig, exit(1) when it failed; a config
\* without Providers makes checkAllProviders return at once
LoadConfig ==
    /\ hcRun.pc = "start"
    /\ hcRun' = IF ~hcConfig.loads
                THEN [hcRun EXCEPT !.pc = "exited", !.exitCode = 1]
                ELSE IF ~hcConfig.hasProviders
                THEN [hcRun EXCEPT !.pc = "checked"]
                ELSE [hcRun EXCEPT !.pc = "checking"]
    /\ UNCHANGED <<hcConfig, hcResults>>
    /\ UNCHANGED exceptHealth

\* one turn of the loop: await this.checkProvider(provider) stores the result
\* under the provider's name
CheckProvider(status) ==
    /\ hcRun.pc = "checking"
    /\ hcRun.checked < Len(hcConfig.Providers)
    /\ LET name == hcConfig.Providers[hcRun.checked + 1]
       IN  hcResults' = [hcResults EXCEPT !.providers =
                            [n \in DOMAIN @ \cup {name} |->
                                IF n = name THEN status ELSE @[n]]]
    /\ hcRun' = [hcRun EXCEPT !.checked = @ + 1]
    /\ UNCHANGED hcConfig
    /\ UNCHANGED exceptHealth

\* the loop is over: this.determineOverallStatus()
DetermineOverallStatus ==
    /\ hcRun.pc = "checking"
    /\ hcRun.checked = Len(hcConfig.Providers)
    /\ hcResults' = [hcResults EXCEPT !.overall = determineOverallStatus(hcResults.providers)]
    /\ hcRun' = [hcRun EXCEPT !.pc = "checked"]
    /\ UNCHANGED hcConfig
    /\ UNCHANGED exceptHealth

\* printSummary, saveResults (a failing write is caught by main().catch) and
\* process.exit(exitCodes[overall] || 1)
Exit(saveThrows) ==
    /\ hcRun.pc = "checked"
    /\ hcRun' = [hcRun EXCEPT !.pc = IF saveThrows THEN "failed" ELSE "exited",
                              !.exitCode = IF saveThrows THEN 1
                                           ELSE ExitCode(hcResults.overall)]
    /\ UNCHANGED <<hcConfig, hcResults>>
    /\ UNCHANGED exceptHealth

----------------------------------------------------------------------------
\* MonitoringService.recordRequest

MaxRecords == 3

MetricProviders == {"openai", "ollama"}
MetricModels == {"gpt-4", "llama3.2"}
Latencies == {0, 1, 2}
\* new Date().getHours(): the calls fall within one hour
Hours == {9}
\* errorType: null, or the name of an error
ErrorTypes == {"null", "timeout"}

NoCounts == [n \in {} |-> 0]
NoEntries == [n \in {} |-> [total |-> 0, successful |-> 0, failed |-> 0]]

\* the structure reset() and a first start install
ResetMetrics ==
    [requests |-> [total |-> 0, successful |-> 0, failed |-> 0,
                   byProvider |-> NoEntries, byModel |-> NoEntries,
                   byHour |-> NoCounts, averageLatency |-> 0],
     errors |-> [total |-> 0, byType |-> NoCounts, byProvider |-> NoCounts,
                 recent |-> <<>>]]

\* an entry counting a failed request in total only
CountTotalOnly(entry, success) ==
    [total |-> entry.total + 1,
     successful |-> entry.successful + (IF success THEN 1 ELSE 0),
     failed |-> entry.failed]

\* total++, then successful++ or failed++
Count(entry, success) ==
    [total |-> entry.total + 1,
     successful |-> entry.successful + (IF success THEN 1 ELSE 0),
     failed |-> entry.failed + (IF success THEN 0 ELSE 1)]

\* if (!map[key]) map[key] = { total: 0, ... }; then the three counters
CountEntry(map, key, success) ==
    [k \in DOMAIN map \cup {key} |->
        IF k = key
        THEN Count(IF key \in DOMAIN map THEN map[key]
                   ELSE [total |-> 0, successful |-> 0, failed |-> 0], success)
        ELSE map[k]]

\* if (!map[key]) map[key] = 0; map[key]++
Increment(map, key) ==
    [k \in DOMAIN map \cup {key} |->
        IF k = key THEN (IF key \in DOMAIN map THEN map[key] ELSE 0) + 1 ELSE map[k]]

\* Math.round(num / den) for num >= 0, den > 0: halves round up
Round(num, den) == (2 * num + den) \div (2 * den)

\* (currentAvg * (total - 1) + latency) / total, rounded and stored
NewAverage(currentAvg, total, latency) ==
    Round(currentAvg * (total - 1) + latency, total)

\* the first ten of a list
FirstTen(list) == SubSeq(list, 1, IF Len(list) < 10 THEN Len(list) ELSE 10)

recordError(errors, errorType, provider) ==
    [total |-> errors.total + 1,
     byType |-> Increment(errors.byType, errorType),
     byProvider |-> Increment(errors.byProvider, provider),
     recent |-> FirstTen(<<[type |-> errorType, provider |-> provider]>> \o errors.recent)]

recordRequest(m, hour, provider, model, latency, success, errorType) ==
    LET r == m.requests
        counted == Count(r, success)
    IN  [requests |->
            [total |-> counted.total,
             successful |-> counted.successful,
             failed |-> counted.failed,
             byProvider |-> CountEntry(r.byProvider, provider, success),
             byModel |-> CountEntry(r.byModel, model, success),
             byHour |-> Increment(r.byHour, hour),
             averageLatency |-> NewAverage(r.averageLatency, counted.total, latency)],
         errors |-> IF ~success /\ errorType # "null"
                    THEN recordError(m.errors, errorType, provider)
                    ELSE m.errors]

IdleMetrics ==
    /\ metrics = ResetMetrics
    /\ latencies = <<>>

RecordRequest(hour, provider, model, latency, success, errorType) ==
    /\ Len(latencies) < MaxRecords
    /\ metrics' = recordRequest(metrics, hour, provider, model, latency, success, errorType)
    /\ latencies' = Append(latencies, latency)
    /\ UNCHANGED exceptMetrics

\* reset()
Reset ==
    /\ latencies # <<>>
    /\ metrics' = ResetMetrics
    /\ latencies' = <<>>
    /\ UNCHANGED exceptMetrics

IdleExceptLog ==
    /\ IdleResp
    /\ IdleMulti
    /\ IdleRoute
    /\ IdleStream
    /\ IdleLoader
    /\ IdleXform
    /\ IdleBackup
    /\ IdlePid
    /\ IdlePass
    /\ IdleMgmt
    /\ IdleHealth
    /\ IdleMetrics

IdleExceptBackup ==
    /\ IdleResp
    /\ IdleMulti
    /\ IdleRoute
    /\ IdleStream
    /\ IdleLoader
    /\ IdleXform
    /\ IdleLog
    /\ IdlePid
    /\ IdlePass
    /\ IdleMgmt
    /\ IdleHealth
    /\ IdleMetrics

IdleExceptPid ==
    /\ IdleResp
    /\ IdleMulti
    /\ IdleRoute
    /\ IdleStream
    /\ IdleLoader
    /\ IdleXform
    /\ IdleLog
    /\ IdleBackup
    /\ IdlePass
    /\ IdleMgmt
    /\ IdleHealth
    /\ IdleMetrics

IdleExceptPass ==
    /\ IdleResp
    /\ IdleMulti
    /\ IdleRoute
    /\ IdleStream
    /\ IdleLoader
    /\ IdleXform
    /\ IdleLog
    /\ IdleBackup
    /\ IdlePid
    /\ IdleMgmt
    /\ IdleHealth
    /\ IdleMetrics

IdleExceptMgmt ==
    /\ IdleResp
    /\ IdleMulti
    /\ IdleRoute
    /\ IdleStream
    /\ IdleLoader
    /\ IdleXform
    /\ IdleLog
    /\ IdleBackup
    /\ IdlePid
    /\ IdlePass
    /\ IdleHealth
    /\ IdleMetrics

IdleExceptHealth ==
    /\ IdleResp
    /\ IdleMulti
    /\ IdleRoute
    /\ IdleStream
    /\ IdleLoader
    /\ IdleXform
    /\ IdleLog
    /\ IdleBackup
    /\ IdlePid
    /\ IdlePass
    /\ IdleMgmt
    /\ IdleMetrics

IdleExceptMetrics ==
    /\ IdleResp
    /\ IdleMulti
    /\ IdleRoute
    /\ IdleStream
    /\ IdleLoader
    /\ IdleXform
    /\ IdleLog
    /\ IdleBackup
    /\ IdlePid
    /\ IdlePass
    /\ IdleMgmt
    /\ IdleHealth

IdleExt ==
    /\ IdleResp
    /\ IdleMulti
    /\ IdleRoute
    /\ IdleStream
    /\ IdleLoader
    /\ IdleXform
    /\ IdleLog
    /\ IdleBackup
    /\ IdlePid
    /\ IdlePass
    /\ IdleMgmt
    /\ IdleHealth
    /\ IdleMetrics

----------------------------------------------------------------------------
\* Specifications

InitProxy ==
    /\ hs = "reading"
    /\ clientOpen = TRUE
    /\ clientRes = <<>>
    /\ attempt = [k \in Levels |-> "unstarted"]
    /\ outcome = [k \in Levels |-> NoOutcome]
    /\ timer = [k \in Levels |-> "unset"]
    /\ delay = [k \in Levels |-> 0]
    /\ promise = [k \in Levels |-> Unmade]
    /\ ollamaRequest = NoRequest

Init ==
    /\ InitProxy
    /\ openaiRequest \in ProxyRequests
    /\ IdleExt

Next ==
    \/ \E parsed \in BOOLEAN : RequestEnd(parsed)
    \/ \E k \in Levels, statusCode \in Statuses :
          \E body \in (IF statusCode = 200 THEN Bodies ELSE {"text"}) :
             ResponseEnd(k, statusCode, body)
    \/ \E k \in Levels, code \in NetCodes : RequestError(k, code)
    \/ \E k \in Levels, raisesError \in BOOLEAN : RequestTimeout(k, raisesError)
    \/ \E k \in Levels : DestroyedError(k)
    \/ \E k \in Levels : TimerFire(k)
    \/ Respond
    \/ ClientDisconnect

Spec == Init /\ [][Next]_allVars

\* the conversion alone, over every request value within the bounds
Convert ==
    /\ UNCHANGED extVars
    /\ ollamaRequest = NoRequest
    /\ ollamaRequest' = convertOpenAIToOllama(openaiRequest)
    /\ UNCHANGED <<proxyVars, openaiRequest>>

InitConvert ==
    /\ InitProxy
    /\ openaiRequest \in OpenAIRequests
    /\ IdleExt

NextConvert == Convert

SpecConvert == InitConvert /\ [][NextConvert]_allVars

----------------------------------------------------------------------------
\* Properties

NumAttempts == Cardinality({k \in Levels : attempt[k] # "unstarted"})

RetryableNetCodes == {"ECONNREFUSED", "ENOTFOUND"}

FailedRetryably(k) ==
    outcome[k].kind = "error" /\ outcome[k].code \in RetryableNetCodes

AllAttemptsFailRetryably ==
    \A k \in Levels : outcome[k].kind = "none" \/ FailedRetryably(k)

NothingAfter(k) ==
    /\ timer[k] = "unset"
    /\ \A j \in Levels : j > k => attempt[j] = "unstarted"
    /\ \A j \in Levels : timer[j] # "armed"

\* C1: while every attempt fails with ECONNREFUSED or ENOTFOUND, each of the
\* first three failures schedules a retry, at most four attempts are ever
\* made (no attempt above retry count 3, no timer after the fourth), and the
\* caller's promise is rejected exactly when the fourth attempt has failed.
C1_AlwaysFailingStopsAfterThreeRetries ==
    AllAttemptsFailRetryably =>
        /\ NumAttempts <= 4
        /\ \A k \in Levels : k > 3 => attempt[k] = "unstarted"
        /\ \A k \in 0..2 : FailedRetryably(k) => timer[k] # "unset"
        /\ timer[3] = "unset"
        /\ promise[0].st # "resolved"
        /\ (promise[0].st = "rejected" <=> FailedRetryably(3))
        /\ (promise[0].st = "rejected" => promise[0].from = 3)

C1_Witness ==
    /\ AllAttemptsFailRetryably
    /\ NumAttempts = 4
    /\ FailedRetryably(3)
    /\ hs = "answered"

\* C2 (the claim as stated): an attempt answered with a 5xx status while
\* retries remain has a retry scheduled.
C2_ServerErrorIsRetried ==
    \A k \in 0..2 :
        (outcome[k].kind = "response" /\ outcome[k].statusCode >= 500)
            => timer[k] # "unset"

\* C3 (the claim as stated): after an attempt with retries remaining timed
\* out and its destroyed request raised 'error', a retry is scheduled and the
\* caller's promise is settled, if at all, only by a later attempt.
C3_TimeoutKeepsPromisePending ==
    \A k \in 0..2 :
        (outcome[k].kind = "timeout" /\ outcome[k].code = "ECONNRESET")
            => /\ timer[k] # "unset"
               /\ Settled(promise[0]) => promise[0].from > k

\* C4: once an attempt, at any retry count, was answered 200 with an error
\* body, the call at that retry count is rejected with status 400 by that
\* attempt, it has scheduled no timer, and no later attempt exists or is
\* pending.
C4_BodyErrorNeverRetried ==
    \A k \in Levels :
        (outcome[k].kind = "response" /\ outcome[k].statusCode = 200
                                      /\ outcome[k].body = "error")
            => /\ promise[k] = [st |-> "rejected", statusCode |-> 400,
                                code |-> "", from |-> k]
               /\ NothingAfter(k)

C4_Witness ==
    /\ outcome[2].kind = "response"
    /\ outcome[2].statusCode = 200
    /\ outcome[2].body = "error"
    /\ FailedRetryably(0)
    /\ FailedRetryably(1)

\* C5 (the claim as stated): once the client has disconnected, no step
\* starts a further upstream attempt.
C5_NoAttemptAfterDisconnect ==
    [][~clientOpen =>
          \A k \in Levels : attempt[k] = "unstarted" => attempt'[k] = "unstarted"]_vars

\* C6: when attempts 1 and 2 failed with ECONNREFUSED or ENOTFOUND and
\* attempt 3 returned a completion, the caller's promise is resolved by the
\* third attempt, exactly three attempts were made, and the two backoff
\* timers were given 1000 ms and 2000 ms; every timer of retry count k is
\* given 1000 * 2^k ms.
C6_TwoFailuresThenSuccess ==
    /\ (/\ FailedRetryably(0)
        /\ FailedRetryably(1)
        /\ outcome[2].kind = "response"
        /\ outcome[2].statusCode = 200
        /\ outcome[2].body = "completion")
       => /\ promise[0] = [st |-> "resolved", statusCode |-> 200,
                           code |-> "", from |-> 2]
          /\ NumAttempts = 3
          /\ delay[0] = 1000
          /\ delay[1] = 2000
          /\ NothingAfter(2)
    /\ \A k \in Levels :
          timer[k] # "unset" => delay[k] = <<1000, 2000, 4000, 8000>>[k + 1]

C6_Witness ==
    /\ FailedRetryably(0)
    /\ FailedRetryably(1)
    /\ outcome[2].kind = "response"
    /\ outcome[2].statusCode = 200
    /\ outcome[2].body = "completion"
    /\ clientRes = <<[status |-> 200, type |-> "chat.completion"]>>

\* C7: once an attempt was answered with a 4xx status, the call at that
\* retry count is rejected by that attempt with that status code, it has
\* scheduled no timer, and no later attempt exists or is pending.
C7_ClientErrorNeverRetried ==
    \A k \in Levels :
        (outcome[k].kind = "response" /\ outcome[k].statusCode \in 400..499)
            => /\ promise[k] = [st |-> "rejected",
                                statusCode |-> outcome[k].statusCode,
                                code |-> "", from |-> k]
               /\ NothingAfter(k)

C7_Witness ==
    /\ FailedRetryably(0)
    /\ outcome[1].kind = "response"
    /\ outcome[1].statusCode = 404
    /\ clientRes = <<[status |-> 404, type |-> "internal_error"]>>

\* C8 (the claim as stated): an answered request for which the daemon
\* reported an error in a 200 body was answered with status 400 and type
\* invalid_request_error.
C8_ModelErrorAnswered400 ==
    (/\ hs = "answered"
     /\ \E k \in Levels : /\ outcome[k].kind = "response"
                          /\ outcome[k].statusCode = 200
                          /\ outcome[k].body = "error")
        => clientRes = <<[status |-> 400, type |-> "invalid_request_error"]>>

\* the n lines "role: content" of the messages, in order, with one "\n"
\* between two neighbours and nothing else
RECURSIVE IsFlattening(_, _)
IsFlattening(prompt, messages) ==
    IF messages = <<>> THEN prompt = <<>>
    ELSE LET head == messages[1]
             r == Len(head.role)
             n == r + 2 + Len(head.content)
         IN  /\ Len(prompt) >= n
             /\ SubSeq(prompt, 1, r) = head.role
             /\ prompt[r + 1] = ":"
             /\ prompt[r + 2] = " "
             /\ SubSeq(prompt, r + 3, n) = head.content
             /\ IF Len(messages) = 1 THEN Len(prompt) = n
                ELSE /\ Len(prompt) > n
                     /\ prompt[n + 1] = "\n"
                     /\ IsFlattening(SubSeq(prompt, n + 2, Len(prompt)),
                                     Tail(messages))

Converted == ollamaRequest # NoRequest

\* C9 (the claim as stated): the daemon request carries the messages as
\* separate turns, roles and contents in the original order, and no
\* flattened prompt.
C9_MessagesKeptAsTurns ==
    Converted =>
        /\ "messages" \in DOMAIN ollamaRequest
        /\ ollamaRequest.messages = openaiRequest.messages
        /\ "prompt" \notin DOMAIN ollamaRequest

\* C9 (amended): the daemon request carries no messages array; its prompt
\* is one string holding the n lines "role: content" in the original order,
\* joined by newlines.
C9_MessagesFlattenedInOrder ==
    Converted =>
        /\ "messages" \notin DOMAIN ollamaRequest
        /\ IsFlattening(ollamaRequest.prompt, openaiRequest.messages)

C9_Witness ==
    /\ Converted
    /\ Len(openaiRequest.messages) = 2
    /\ openaiRequest.messages[1] # openaiRequest.messages[2]

DaemonField(field) ==
    CASE field = "max_tokens"  -> "num_predict"
      [] field = "temperature" -> "temperature"
      [] field = "top_p"       -> "top_p"

\* C10 (the claim as stated): every sampling parameter the request supplies,
\* 0 included, is forwarded unchanged in its daemon field, and an absent one
\* gets the default.
C10_SamplingPassedThrough ==
    Converted =>
        \A field \in SamplingFields :
            ollamaRequest.options[DaemonField(field)] =
                IF field \in DOMAIN openaiRequest THEN openaiRequest[field]
                ELSE CASE field = "max_tokens"  -> 100
                       [] field = "temperature" -> 7
                       [] field = "top_p"       -> 9

C10_Witness ==
    /\ Converted
    /\ "temperature" \in DOMAIN openaiRequest
    /\ openaiRequest.temperature = 0

\* Two chat-completion requests in flight.  Every callback of the proxy is a
\* closure over the req, res, body, retryCount, resolve and reject of its own
\* request; the event loop runs one callback at a time, of either request.
Requests == {1, 2}

\* the closure state of the request whose callbacks are running
Snapshot ==
    [hs |-> hs, clientOpen |-> clientOpen, clientRes |-> clientRes,
     attempt |-> attempt, outcome |-> outcome, timer |-> timer, delay |-> delay,
     promise |-> promise, openaiRequest |-> openaiRequest,
     ollamaRequest |-> ollamaRequest]

StartSnapshot(request) ==
    [hs |-> "reading", clientOpen |-> TRUE, clientRes |-> <<>>,
     attempt |-> [k \in Levels |-> "unstarted"],
     outcome |-> [k \in Levels |-> NoOutcome],
     timer |-> [k \in Levels |-> "unset"],
     delay |-> [k \in Levels |-> 0],
     promise |-> [k \in Levels |-> Unmade],
     openaiRequest |-> request, ollamaRequest |-> NoRequest]

\* the event loop turns to a callback of the other request; a pending
\* continuation of the running request is a microtask and runs first
Switch ==
    /\ MicrotasksDrained
    /\ cur' = 3 - cur
    /\ parked' = Snapshot
    /\ hs' = parked.hs
    /\ clientOpen' = parked.clientOpen
    /\ clientRes' = parked.clientRes
    /\ attempt' = parked.attempt
    /\ outcome' = parked.outcome
    /\ timer' = parked.timer
    /\ delay' = parked.delay
    /\ promise' = parked.promise
    /\ openaiRequest' = parked.openaiRequest
    /\ ollamaRequest' = parked.ollamaRequest
    /\ UNCHANGED <<logVars, backupVars, pidVars, passVars, mgmtVars, healthVars, metricsVars, xformVars, respVars, routeVars, streamVars, loaderVars>>

InitMulti ==
    /\ IdleMetrics
    /\ IdleHealth
    /\ IdleMgmt
    /\ IdlePass
    /\ IdlePid
    /\ IdleBackup
    /\ IdleLog
    /\ IdleXform
    /\ IdleLoader
    /\ IdleStream
    /\ InitProxy
    /\ openaiRequest \in ProxyRequests
    /\ cur = 1
    /\ parked \in {StartSnapshot(request) : request \in ProxyRequests}
    /\ IdleResp
    /\ IdleRoute

\* what the daemon and the network do to the attempts of the two requests
MultiStatuses == {200, 500}
MultiBodies == {"completion", "error"}
MultiNetCodes == {"ECONNREFUSED"}

NextMulti ==
    \/ \E parsed \in BOOLEAN : RequestEnd(parsed)
    \/ \E k \in Levels, statusCode \in MultiStatuses :
          \E body \in (IF statusCode = 200 THEN MultiBodies ELSE {"text"}) :
             ResponseEnd(k, statusCode, body)
    \/ \E k \in Levels, code \in MultiNetCodes : RequestError(k, code)
    \/ \E k \in Levels : RequestTimeout(k, FALSE)
    \/ \E k \in Levels : TimerFire(k)
    \/ Respond
    \/ Switch

SpecMulti == InitMulti /\ [][NextMulti]_allVars

\* the closure state of request r
StateOf(r) == IF r = cur THEN Snapshot ELSE parked

\* C12: no step of the proxy (a failure, a retry, a timer, an answer of the
\* request whose callback runs) changes anything of the other request in
\* flight: its retry counts, its attempts, its promise or its response.
C12_RequestsIndependent ==
    [][\A r \in Requests : r # cur => StateOf(r)' = StateOf(r)]_allVars

\* request 2 was retried three times and answered with an error while request
\* 1, parked with its first attempt in flight, has seen no retry and no answer
C12_Witness ==
    /\ cur = 2
    /\ NumAttempts = MaxRetries + 1
    /\ Len(clientRes) = 1
    /\ clientRes[1].status = 500
    /\ parked.hs = "awaiting"
    /\ parked.attempt[0] = "inflight"
    /\ \A k \in Levels \ {0} : parked.attempt[k] = "unstarted"
    /\ parked.clientRes = <<>>

\* one routing decision, over every request and configuration within the bounds
Decide ==
    /\ decision = NoDecision
    /\ decision' = decide(routeIn.request, routeIn.routerConfig, routeIn.tokenCount)
    /\ UNCHANGED <<logVars, backupVars, pidVars, passVars, mgmtVars, healthVars, metricsVars, xformVars, vars, respVars, multiVars, streamVars, loaderVars, routeIn>>

InitRoute ==
    /\ IdleMetrics
    /\ IdleHealth
    /\ IdleMgmt
    /\ IdlePass
    /\ IdlePid
    /\ IdleBackup
    /\ IdleLog
    /\ IdleXform
    /\ IdleLoader
    /\ IdleStream
    /\ InitProxy
    /\ openaiRequest = NoRequest
    /\ IdleResp
    /\ IdleMulti
    /\ routeIn \in {[request |-> request, routerConfig |-> routerConfig,
                      tokenCount |-> Threshold(routerConfig) + over] :
                        request \in RouteRequests, routerConfig \in RouterConfigs,
                        over \in {0, 1}}
    /\ decision = NoDecision

NextRoute == Decide

SpecRoute == InitRoute /\ [][NextRoute]_allVars

Decided == decision # NoDecision

\* the decision names exactly the pair written in str
Names(str) ==
    /\ decision.provider = ParsePair(str).provider
    /\ decision.model = ParsePair(str).model

HasTag == routeIn.request.tag # <<>>
HasExplicitOverride == ValidPair(routeIn.request.model)

C14_DecisionValidOrDefault ==
    Decided =>
        LET selected == Select(routeIn.request, routeIn.routerConfig, routeIn.tokenCount)
        IN  /\ Len(decision.provider) = 1
            /\ decision.provider[1] \in DOMAIN Providers
            /\ Len(decision.model) = 1
            /\ decision.model[1] \in Providers[decision.provider[1]]
            /\ (selected.rule = "default" \/ ~ValidPair(selected.target))
                  => /\ Names(routeIn.routerConfig.default)
                     /\ decision.reason = "default"

\* a web-search request whose webSearch slot names an unknown model, routed
\* to default
C14_Witness ==
    /\ Decided
    /\ Select(routeIn.request, routeIn.routerConfig, routeIn.tokenCount)
          = [rule |-> "webSearch", target |-> Str("a", "z")]
    /\ decision = [provider |-> <<"a">>, model |-> <<"x">>, reason |-> "default"]

NoHigherRule ==
    /\ ~HasTag
    /\ ~HasExplicitOverride
    /\ CustomAnswer(routeIn.routerConfig) = <<>>

\* C15 (the claim as stated): with a longContext route configured and no
\* tag, explicit override or custom-router result, the decision is the
\* long-context one exactly when tokenCount > longContextThreshold.
C15_LongContextExactlyAboveThreshold ==
    (Decided /\ NoHigherRule /\ Configured(routeIn.routerConfig.longContext))
        => (decision.reason = "longContext"
               <=> routeIn.tokenCount > Threshold(routeIn.routerConfig))

\* C15 (amended): the same for a longContext route that names a valid pair;
\* a configured but invalid longContext route falls back to default.
C15_ValidLongContextExactlyAboveThreshold ==
    (Decided /\ NoHigherRule /\ ValidPair(routeIn.routerConfig.longContext))
        => /\ (decision.reason = "longContext"
                  <=> routeIn.tokenCount > Threshold(routeIn.routerConfig))
           /\ decision.reason = "longContext" => Names(routeIn.routerConfig.longContext)

\* a request one token above the default threshold of 60000, routed to the
\* longContext pair although think and background are flagged too
C15_Witness ==
    /\ Decided
    /\ NoHigherRule
    /\ "longContextThreshold" \notin DOMAIN routeIn.routerConfig
    /\ routeIn.tokenCount = DefaultLongContextThreshold + 1
    /\ routeIn.request.think
    /\ decision = [provider |-> <<"b">>, model |-> <<"x">>, reason |-> "longContext"]

\* Two streamed responses, each with its own StreamState; the transport
\* delivers the bytes of either in chunks of any size.
Read(r, n) ==
    /\ ~Closed(sstate[r])
    /\ fed[r] + n <= Len(StreamBytes(sframes[r]))
    /\ sstate' = [sstate EXCEPT ![r] =
                     Feed(@, SubSeq(StreamBytes(sframes[r]), fed[r] + 1, fed[r] + n))]
    /\ fed' = [fed EXCEPT ![r] = @ + n]
    /\ UNCHANGED <<logVars, backupVars, pidVars, passVars, mgmtVars, healthVars, metricsVars, xformVars, vars, respVars, multiVars, routeVars, loaderVars, sframes>>

UpstreamError(r) ==
    /\ ~Closed(sstate[r])
    /\ sstate' = [sstate EXCEPT ![r] = Fail(@)]
    /\ UNCHANGED <<logVars, backupVars, pidVars, passVars, mgmtVars, healthVars, metricsVars, xformVars, vars, respVars, multiVars, routeVars, loaderVars, sframes, fed>>

InitStream ==
    /\ IdleMetrics
    /\ IdleHealth
    /\ IdleMgmt
    /\ IdlePass
    /\ IdlePid
    /\ IdleBackup
    /\ IdleLog
    /\ IdleXform
    /\ IdleLoader
    /\ InitProxy
    /\ openaiRequest = NoRequest
    /\ IdleResp
    /\ IdleMulti
    /\ IdleRoute
    /\ sframes \in {(1 :> one) @@ (2 :> two) : one \in FrameSeqs, two \in SideFrameSeqs}
    /\ fed = [r \in Responses |-> 0]
    /\ sstate = [r \in Responses |-> StartState]

NextStream ==
    \/ \E r \in Responses : \E n \in 1..Len(StreamBytes(sframes[r])) : Read(r, n)
    \/ \E r \in Responses : UpstreamError(r)

SpecStream == InitStream /\ [][NextStream]_allVars

\* the text of the content deltas delivered so far
RECURSIVE Text(_)
Text(events) ==
    IF events = <<>> THEN <<>>
    ELSE (IF Head(events).name = "content-delta" THEN <<Head(events).text>> ELSE <<>>)
         \o Text(Tail(events))

\* the bytes of response r read so far
ReadSoFar(r) == SubSeq(StreamBytes(sframes[r]), 1, fed[r])

\* C16: whatever chunks the bytes read so far arrived in, the text delivered
\* and the usage totals are those of the same bytes fed in a single chunk;
\* in particular once the whole stream has been read.
C16_ChunkingInvariant ==
    \A r \in Responses :
        sstate[r].phase # "Failed" =>
            LET unsplit == Feed(StartState, ReadSoFar(r))
            IN  /\ Text(sstate[r].events) = Text(unsplit.events)
                /\ sstate[r].usage = unsplit.usage
                /\ sstate[r].events = unsplit.events

\* a chunk has ended inside the second frame of a stream, between the two
\* lines of a usage report: the delta before it is delivered, the partial
\* frame is kept in the buffer
C16_Witness ==
    /\ sframes[1] = <<DeltaFrame("a"), UsageFrame("o", "2")>>
    /\ sstate[1].phase = "AccumulatingFrame"
    /\ sstate[1].buffer = <<"e", ":", " ", "u", "\n", "o">>
    /\ sstate[1].events = <<[name |-> "content-delta", text |-> "a"]>>

\* the canonical events of the first n frames of a stream, in frame order
RECURSIVE Expected(_, _, _)
Expected(frames, n, usage) ==
    IF n = 0 \/ frames = <<>> THEN <<>>
    ELSE LET frame == Head(frames)
         IN  IF frame = StopFrame
             THEN <<[name |-> "message-stop", usage |-> usage]>>
             ELSE IF frame[1].f = "d"
             THEN <<[name |-> "content-delta", text |-> frame[1].v]>>
                  \o Expected(Tail(frames), n - 1, usage)
             ELSE Expected(Tail(frames), n - 1,
                           [input  |-> IF frame[2].f = "i"
                                       THEN Max(usage.input, Digit[frame[2].v])
                                       ELSE usage.input,
                            output |-> IF frame[2].f = "o"
                                       THEN Max(usage.output, Digit[frame[2].v])
                                       ELSE usage.output])

\* how many frames of response r have been read completely
FramesRead(r) ==
    Cardinality({n \in 1..Len(sframes[r]) :
                    Len(StreamBytes(SubSeq(sframes[r], 1, n))) <= fed[r]})

\* C17: the events delivered for a response are the canonical events of the
\* frames read from its upstream so far, in the order of the frames (followed
\* by the terminal error event after a transport error), whatever the other
\* response is doing.
C17_EventsInUpstreamOrder ==
    \A r \in Responses :
        sstate[r].events =
            Expected(sframes[r], FramesRead(r), StartState.usage)
              \o (IF sstate[r].phase = "Failed" THEN <<[name |-> "error"]>> ELSE <<>>)

\* both responses have delivered events, the reads of the two interleaved
C17_Witness ==
    /\ sframes[1] = <<DeltaFrame("a"), DeltaFrame("b")>>
    /\ sstate[1].events = <<[name |-> "content-delta", text |-> "a"],
                            [name |-> "content-delta", text |-> "b"]>>
    /\ sframes[2] = <<DeltaFrame("b"), StopFrame>>
    /\ Len(sstate[2].events) = 1
    /\ sstate[2].phase = "AccumulatingFrame"

\* createServer: new Server(config), then loadCustomTransformers(server); the
\* loader catches whatever is thrown, so the server is always returned
CreateServer(dup) ==
    /\ server = "none"
    /\ LET st == loadCustomTransformers([registry |-> registry, errlog |-> errlog],
                                        plugins, dup)
       IN  /\ registry' = st.registry
           /\ errlog' = st.errlog
    /\ server' = "returned"
    /\ UNCHANGED <<logVars, backupVars, pidVars, passVars, mgmtVars, healthVars, metricsVars, xformVars, vars, respVars, multiVars, routeVars, streamVars, plugins>>

InitLoader ==
    /\ IdleMetrics
    /\ IdleHealth
    /\ IdleMgmt
    /\ IdlePass
    /\ IdlePid
    /\ IdleBackup
    /\ IdleLog
    /\ IdleXform
    /\ InitProxy
    /\ openaiRequest = NoRequest
    /\ IdleResp
    /\ IdleMulti
    /\ IdleRoute
    /\ IdleStream
    /\ plugins \in PluginDirs
    /\ registry = EmptyRegistry
    /\ errlog = <<>>
    /\ server = "none"

NextLoader == \E dup \in DupPolicies : CreateServer(dup)

SpecLoader == InitLoader /\ [][NextLoader]_allVars

\* file i is a plugin file that exports a transformer with a name
Exports(i, name) == plugins.files[i].js /\ plugins.files[i].exports = name
Named(i) == plugins.files[i].js /\ plugins.files[i].exports \notin {"throws", "noname"}

\* two plugin files export the same name and the service is there to
\* register them
DuplicateLoaded ==
    /\ plugins.state = "ok"
    /\ plugins.service
    /\ \E i, j \in 1..Len(plugins.files) :
          i < j /\ Named(i) /\ Exports(j, plugins.files[i].exports)

FirstExporting(name) ==
    CHOOSE i \in 1..Len(plugins.files) :
        Exports(i, name) /\ \A j \in 1..(i - 1) : ~Exports(j, name)

\* C18 (the claim as stated): when plugin files export a name twice, the
\* second registration is rejected with a configuration error (startup is
\* aborted) and every name is still held by the first file that exported it.
C18_DuplicateNameRejected ==
    (server # "none" /\ DuplicateLoaded) =>
        /\ server = "aborted"
        /\ \A name \in DOMAIN registry : registry[name] = FirstExporting(name)

\* a plugin file failed to load (its require threw)
FailedToLoad(i) == Exports(i, "throws")

TransformRequest ==
    /\ result = 0
    /\ heap' = transformRequest(heap, ReqAddr).heap
    /\ result' = transformRequest(heap, ReqAddr).ret
    /\ UNCHANGED <<logVars, backupVars, pidVars, passVars, mgmtVars, healthVars, metricsVars, vars, respVars, multiVars, routeVars, streamVars, loaderVars>>

InitXform ==
    /\ IdleMetrics
    /\ IdleHealth
    /\ IdleMgmt
    /\ IdlePass
    /\ IdlePid
    /\ IdleBackup
    /\ IdleLog
    /\ InitProxy
    /\ openaiRequest = NoRequest
    /\ IdleResp
    /\ IdleMulti
    /\ IdleRoute
    /\ IdleStream
    /\ IdleLoader
    /\ heap \in {StartHeap(body) : body \in TransformBodies}
    /\ result = 0

NextXform == TransformRequest

SpecXform == InitXform /\ [][NextXform]_allVars

\* C20: the call returns an object that is not the request it received, with
\* a body that is not the body it received, and every object that existed
\* before the call (the request, its body, the messages) is as it was.
C20_InputLeftUnchanged ==
    [][result' # result =>
          /\ result' # ReqAddr
          /\ heap'[result'].body # heap[ReqAddr].body
          /\ \A addr \in DOMAIN heap : heap'[addr] = heap[addr]]_allVars

\* a call that changed the body it returned (stream defaulted to true, the
\* zero temperature dropped) while the body received still reads as before
C20_Witness ==
    /\ result # 0
    /\ heap[BodyAddr] = [messages |-> Ref(MessagesAddr), model |-> "llama",
                          temperature |-> 0]
    /\ heap[heap[result].body.ref] = [model |-> "llama", messages |-> Ref(MessagesAddr),
                                      stream |-> TRUE]
    /\ heap[ReqAddr].body = Ref(BodyAddr)

\* the response conversion alone, over every payload within the bounds
ConvertBack(now) ==
    /\ openaiResponse = NoResponse
    /\ openaiResponse' = convertOllamaToOpenAI(ollamaResponse, openaiRequest, now)
    /\ UNCHANGED <<logVars, backupVars, pidVars, passVars, mgmtVars, healthVars, metricsVars, xformVars, vars, ollamaResponse, multiVars, routeVars, streamVars, loaderVars>>

InitConvertBack ==
    /\ IdleMetrics
    /\ IdleHealth
    /\ IdleMgmt
    /\ IdlePass
    /\ IdlePid
    /\ IdleBackup
    /\ IdleLog
    /\ IdleXform
    /\ IdleLoader
    /\ IdleStream
    /\ InitProxy
    /\ openaiRequest \in {[model |-> m, messages |-> <<>>] : m \in Models}
    /\ ollamaResponse \in OllamaResponses
    /\ openaiResponse = NoResponse
    /\ IdleMulti
    /\ IdleRoute

NextConvertBack == \E now \in Clock : ConvertBack(now)

SpecConvertBack == InitConvertBack /\ [][NextConvertBack]_allVars

ConvertedBack == openaiResponse # NoResponse

\* C11 (the claim as stated): the finish_reason handed to the client is
\* 'length' when the daemon reports length, 'stop' when it reports stop or
\* no reason, and never any other string.
C11_FinishReasonCanonical ==
    ConvertedBack =>
        LET finish == openaiResponse.choices[1].finish_reason
        IN  /\ finish \in {"stop", "length"}
            /\ ("done_reason" \in DOMAIN ollamaResponse
                   /\ ollamaResponse.done_reason = "length") => finish = "length"
            /\ ("done_reason" \notin DOMAIN ollamaResponse
                   \/ ollamaResponse.done_reason = "stop") => finish = "stop"

\* one call of cleanupLogFiles(maxFiles); any of the unlinks may fail
CleanupLogFiles(maxFiles, failing) ==
    /\ ~logRun.done
    /\ failing \subseteq Exceeding(logsDir.files, maxFiles)
    /\ (~logsDir.exists \/ ~logsDir.listable) => failing = {}
    /\ logsDir' = cleanupLogFiles(logsDir, maxFiles, failing)
    /\ logRun' = [done |-> TRUE, maxFiles |-> maxFiles, before |-> logsDir.files,
                  failed |-> failing]
    /\ UNCHANGED exceptLog

InitLog ==
    /\ InitProxy
    /\ openaiRequest = NoRequest
    /\ IdleExceptLog
    /\ logsDir \in LogDirs
    /\ logRun = NoRun

NextLog ==
    \E maxFiles \in 0..MaxKeep, failing \in SUBSET LogDirNames :
        CleanupLogFiles(maxFiles, failing)

SpecLog == InitLog /\ [][NextLog]_allVars

RemainingLogs == {file \in logsDir.files : IsLogFile(file)}

CleanupOldBackups(maxBackups, listing, statThrows, rmFails) ==
    /\ ~backupRun.done
    /\ backupRun' = [done |-> TRUE, maxBackups |-> maxBackups,
                     before |-> backupDir.entries,
                     failed |-> statThrows \/ rmFails # {}]
    /\ backupDir' = cleanupOldBackups(backupDir, maxBackups, listing, statThrows, rmFails)
    /\ UNCHANGED exceptBackup

InitBackup ==
    /\ InitProxy
    /\ openaiRequest = NoRequest
    /\ IdleExceptBackup
    /\ backupDir \in BackupDirStates
    /\ backupRun = NoRun

NextBackup ==
    \E maxBackups \in 0..MaxKeep, statThrows \in BOOLEAN :
       \E listing \in Listings(DOMAIN backupDir.entries) :
          \E rmFails \in SUBSET {name \in DOMAIN backupDir.entries :
                                   backupDir.entries[name].isDir} :
             /\ statThrows => (backupDir.listable /\ DOMAIN backupDir.entries # {})
             /\ (statThrows \/ ~backupDir.listable) => rmFails = {}
             /\ CleanupOldBackups(maxBackups, listing, statThrows, rmFails)

SpecBackup == InitBackup /\ [][NextBackup]_allVars

RemainingBackups ==
    {name \in DOMAIN backupDir.entries : backupDir.entries[name].isDir}
DeletedBackups == DOMAIN backupRun.before \ DOMAIN backupDir.entries

BackupsPruned ==
    /\ Cardinality(RemainingBackups) <= backupRun.maxBackups
    /\ \A kept \in RemainingBackups :
         \A gone \in DeletedBackups :
            backupRun.before[kept].mtime >= backupRun.before[gone].mtime
    /\ \A name \in DOMAIN backupRun.before :
         ~backupRun.before[name].isDir => name \in DOMAIN backupDir.entries

CallCleanupPidFile(retries) ==
    /\ pidRun.pc = "idle"
    /\ pidRun' = LoopHead([pidRun EXCEPT !.retries = retries], 1)
    /\ UNCHANGED <<pidFile, exceptPid>>

\* the body of the try: no file, nothing to clean; else unlink and return
TryUnlink(unlinkThrows) ==
    /\ pidRun.pc = "trying"
    /\ ~pidFile => ~unlinkThrows
    /\ IF ~pidFile
       THEN /\ pidRun' = [pidRun EXCEPT !.pc = "returned", !.outcome = "absent"]
            /\ UNCHANGED pidFile
       ELSE IF ~unlinkThrows
       THEN /\ pidRun' = [pidRun EXCEPT !.pc = "returned", !.outcome = "deleted",
                                        !.unlinks = @ + 1]
            /\ pidFile' = FALSE
       ELSE \* catch: warn; after the last attempt the loop ends, else wait
            /\ pidRun' =
                 IF pidRun.attempt = pidRun.retries
                 THEN LoopHead([pidRun EXCEPT !.unlinks = @ + 1, !.warnings = @ + 1],
                               pidRun.attempt + 1)
                 ELSE [pidRun EXCEPT !.pc = "waiting", !.unlinks = @ + 1,
                                     !.warnings = @ + 1]
            /\ UNCHANGED pidFile
    /\ UNCHANGED exceptPid

\* the 100 ms timer of the catch block fires
RetryTimerFires ==
    /\ pidRun.pc = "waiting"
    /\ pidRun' = LoopHead(pidRun, pidRun.attempt + 1)
    /\ UNCHANGED <<pidFile, exceptPid>>

\* another process removes or recreates the PID file during the wait
PidFileChanges ==
    /\ pidRun.pc = "waiting"
    /\ pidFile' = ~pidFile
    /\ UNCHANGED <<pidRun, exceptPid>>

InitPid ==
    /\ InitProxy
    /\ openaiRequest = NoRequest
    /\ IdleExceptPid
    /\ pidFile \in BOOLEAN
    /\ pidRun = NoPidRun

PidSteps ==
    \/ \E unlinkThrows \in BOOLEAN : TryUnlink(unlinkThrows)
    \/ RetryTimerFires

NextPid ==
    \/ \E retries \in 0..MaxPidRetries : CallCleanupPidFile(retries)
    \/ \E unlinkThrows \in BOOLEAN : TryUnlink(unlinkThrows)
    \/ RetryTimerFires
    \/ PidFileChanges

SpecPid == InitPid /\ [][NextPid]_allVars

\* the event loop runs the function's continuations and fires its timer
SpecPidFair == SpecPid /\ WF_allVars(PidSteps)

PidCalled == pidRun.pc # "idle"

\* C23 (safety part): the call never makes more than `retries` unlink
\* attempts, never goes past the retries-th turn of the loop, and has
\* returned as soon as an unlink succeeded or the file was found absent.
PidAttemptsBounded ==
    /\ pidRun.unlinks <= pidRun.retries
    /\ pidRun.pc \in {"trying", "waiting"} => pidRun.attempt <= pidRun.retries
    /\ pidRun.pc \in {"trying", "waiting"} => pidRun.unlinks = pidRun.warnings
    /\ pidRun.pc = "returned" =>
          \/ pidRun.outcome = "deleted" /\ pidRun.unlinks = pidRun.warnings + 1
          \/ pidRun.outcome = "absent" /\ pidRun.unlinks = pidRun.warnings
          \/ pidRun.outcome = "gave up" /\ pidRun.unlinks = pidRun.retries
                                         /\ pidRun.warnings = pidRun.retries
          \/ pidRun.outcome = "no attempt" /\ pidRun.retries = 0

\* C23: cleanupPidFile(retries) always returns (it has no way to throw), after
\* at most `retries` unlink attempts, stopping at the first unlink that
\* succeeds or as soon as the file is found absent.
C23_PidCleanupTerminates ==
    /\ []PidAttemptsBounded
    /\ PidCalled ~> (pidRun.pc = "returned")

\* every one of MaxPidRetries unlinks threw and the call gave up and returned
C23_Witness ==
    /\ pidRun.pc = "returned"
    /\ pidRun.retries = MaxPidRetries
    /\ pidRun.unlinks = MaxPidRetries
    /\ pidRun.outcome = "gave up"
    /\ pidFile

----------------------------------------------------------------------------
\* The whole handler with its callbacks run: an attempt that is in flight ends
\* with one of the events callOllama listens for (the 30 s socket timeout at
\* the latest), an armed retry timer fires, and the continuation of the
\* handler's await runs.  The client's disconnecting is never required.

ProxySteps ==
    \/ \E k \in Levels, statusCode \in Statuses :
          \E body \in (IF statusCode = 200 THEN Bodies ELSE {"text"}) :
             ResponseEnd(k, statusCode, body)
    \/ \E k \in Levels, code \in NetCodes : RequestError(k, code)
    \/ \E k \in Levels, raisesError \in BOOLEAN : RequestTimeout(k, raisesError)
    \/ \E k \in Levels : DestroyedError(k)
    \/ \E k \in Levels : TimerFire(k)
    \/ Respond

SpecFair == Spec /\ WF_allVars(ProxySteps)

BodyReceived == hs # "reading"

Answered == Len(clientRes) = 1

\* an answer is 200 with the completion or one error status
IsAnswer(a) ==
    \/ a = SuccessAnswer
    \/ (a.status \in (Statuses \ {200}) /\ a.type \in {"invalid_request_error", "internal_error"})

\* a step writes to the client's response only by answering an unanswered
\* request, and the answer once written stays as it is
AnswerWrittenOnce ==
    (clientRes' # clientRes) =>
        /\ clientRes = <<>>
        /\ Len(clientRes') = 1
        /\ IsAnswer(clientRes'[1])

----------------------------------------------------------------------------
\* proxyRequest alone, over every path, upstream status and failure point

InitPass ==
    /\ InitProxy
    /\ openaiRequest = NoRequest
    /\ IdleExceptPass
    /\ IdlePass

NextPass ==
    \/ \E method \in PassMethods, url \in PassUrls : ProxyRequest(method, url)
    \/ \E statusCode \in Statuses : ProxyResponse(statusCode)
    \/ PipeChunk
    \/ PipeEnd
    \/ \E code \in PassNetCodes : ProxyError(code)

SpecPass == InitPass /\ [][NextPass]_allVars

\* C25 (the claim as stated): for a passed-through request the status line and
\* headers are written to the client at most once, and no second writeHead is
\* issued when the upstream request raises an error after the upstream
\* response's headers were relayed.
C25_HeadWrittenAtMostOnce ==
    /\ Len(passRes.headers) <= 1
    /\ Len(passRes.writeHeads) <= 1

----------------------------------------------------------------------------
\* the management endpoints, over every access level and failure of the
\* backup, the write and the update

InitMgmt ==
    /\ InitProxy
    /\ openaiRequest = NoRequest
    /\ IdleExceptMgmt
    /\ configFile \in {"absent", "c0"}
    /\ configBackups = <<>>
    /\ mgmtReq = NoMgmtReq
    /\ mgmtEffects = <<>>
    /\ mgmtReplies = <<>>
    /\ restartTimers = <<>>

NextMgmt ==
    \/ \E accessLevel \in AccessLevels, newConfig \in ConfigBodies :
          PostConfig(accessLevel, newConfig)
    \/ \E backupPath \in {"copied", "nothing to copy", "throws"} : BackupSettles(backupPath)
    \/ \E writeThrows \in BOOLEAN : WriteSettles(writeThrows)
    \/ \E accessLevel \in AccessLevels : PostRestart(accessLevel)
    \/ RestartTimerFires
    \/ \E accessLevel \in AccessLevels, updateThrows \in BOOLEAN :
          PostUpdatePerform(accessLevel, updateThrows)

SpecMgmt == InitMgmt /\ [][NextMgmt]_allVars

\* C26 (the claim as stated): a config write, a restart or an update is
\* carried out only for a request whose access level is 'full'.
C26_StateChangesNeedFullAccess ==
    \A i \in 1..Len(mgmtEffects) : mgmtEffects[i].accessLevel = "full"

EffectsOf(kind) == {i \in 1..Len(mgmtEffects) : mgmtEffects[i].kind = kind}

\* the part of the claim the code keeps: updates need full access
UpdatesNeedFullAccess ==
    \A i \in EffectsOf("update") : mgmtEffects[i].accessLevel = "full"

----------------------------------------------------------------------------
\* the health-check CLI, over every config and every provider status

ProviderLists == UNION {[1..n -> ProviderNames] : n \in 0..MaxProviders}

HealthConfigs ==
    {[loads |-> FALSE, hasProviders |-> FALSE, Providers |-> <<>>],
     [loads |-> TRUE, hasProviders |-> FALSE, Providers |-> <<>>]}
    \cup {[loads |-> TRUE, hasProviders |-> TRUE, Providers |-> l] : l \in ProviderLists}

InitHealth ==
    /\ InitProxy
    /\ openaiRequest = NoRequest
    /\ IdleExceptHealth
    /\ hcConfig \in HealthConfigs
    /\ hcResults = NoHealthResults
    /\ hcRun = NoHealthRun

NextHealth ==
    \/ LoadConfig
    \/ \E status \in ProviderStatuses : CheckProvider(status)
    \/ DetermineOverallStatus
    \/ \E saveThrows \in BOOLEAN : Exit(saveThrows)

SpecHealth == InitHealth /\ [][NextHealth]_allVars

\* C28 (the claim as stated): a run that reaches the final process.exit with
\* an overall status exits with the code assigned to it: 0 healthy, 1 partial,
\* 2 degraded, 3 unreachable, 4 no_providers.
C28_ExitCodeOfOverallStatus ==
    (hcRun.pc = "exited" /\ hcResults.overall \in DOMAIN exitCodes) =>
        hcRun.exitCode = exitCodes[hcResults.overall]

\* what the code does hold: every status but healthy exits with its code
ExitCodeUnlessHealthy ==
    (hcRun.pc = "exited" /\ hcResults.overall \in DOMAIN exitCodes \ {"healthy"}) =>
        hcRun.exitCode = exitCodes[hcResults.overall]

----------------------------------------------------------------------------
\* recordRequest from reset metrics, over every sequence of calls

InitMetrics ==
    /\ InitProxy
    /\ openaiRequest = NoRequest
    /\ IdleExceptMetrics
    /\ metrics = ResetMetrics
    /\ latencies = <<>>

NextMetrics ==
    \/ \E hour \in Hours, provider \in MetricProviders, model \in MetricModels,
          latency \in Latencies, success \in BOOLEAN, errorType \in ErrorTypes :
          RecordRequest(hour, provider, model, latency, success, errorType)
    \/ Reset

SpecMetrics == InitMetrics /\ [][NextMetrics]_allVars

Balanced(entry) == entry.total = entry.successful + entry.failed

RECURSIVE SumTotals(_, _)
SumTotals(map, keys) ==
    IF keys = {} THEN 0
    ELSE LET k == CHOOSE x \in keys : TRUE
         IN  map[k].total + SumTotals(map, keys \ {k})

\* C29: from reset metrics, after any sequence of recordRequest calls,
\* requests.total = successful + failed, the same holds for each provider's
\* and each model's entry, and the per-provider totals sum to requests.total.
C29_CountersBalance ==
    LET r == metrics.requests
    IN  /\ r.total = Len(latencies)
        /\ Balanced(r)
        /\ \A p \in DOMAIN r.byProvider : Balanced(r.byProvider[p])
        /\ \A mo \in DOMAIN r.byModel : Balanced(r.byModel[mo])
        /\ SumTotals(r.byProvider, DOMAIN r.byProvider) = r.total

\* three calls to two providers and two models, failures among them
C29_Witness ==
    /\ metrics.requests.total = 3
    /\ metrics.requests.failed = 2
    /\ DOMAIN metrics.requests.byProvider = MetricProviders
    /\ DOMAIN metrics.requests.byModel = MetricModels
    /\ metrics.requests.byProvider["openai"].failed = 1
    /\ metrics.requests.byProvider["ollama"].failed = 1
    /\ metrics.errors.total = 1

RECURSIVE SumSeq(_)
SumSeq(s) == IF s = <<>> THEN 0 ELSE Head(s) + SumSeq(Tail(s))

\* a is an integer nearest to num / den (either neighbour of a half)
IsNearest(a, num, den) ==
    /\ 2 * (a * den - num) <= den
    /\ 2 * (num - a * den) <= den

\* C30 (the claim as stated): from reset metrics, after recordRequest calls
\* with latencies l1..ln, requests.averageLatency is the arithmetic mean of
\* l1..ln rounded to the nearest integer.
C30_AverageIsRoundedMean ==
    latencies # <<>> =>
        IsNearest(metrics.requests.averageLatency, SumSeq(latencies), Len(latencies))

====
